---- MODULE Spec2Model ----
(***************************************************************************)
(* Model of the incremental pipelines of src/main.py:                      *)
(*   MarginCalculator        (largest / smallest margin of victory)        *)
(*   HighestScorerProcessor  (highest scoring starter of a week)           *)
(* together with the state they share across runs: the Sleeper API         *)
(* responses, the two processed-weeks log files and the worksheets.        *)
(*                                                                         *)
(* Points are integers (the API's numbers scaled); player, user and        *)
(* worksheet names are strings.  A ledger line f"{year},{week}" is the     *)
(* pair <<year, week>> with year the configuration key (a string); a       *)
(* worksheet row carries int(year).                                        *)
(***************************************************************************)
EXTENDS Integers, Sequences, FiniteSets, TLC

VARIABLES
    api,      \* upstream responses of a league: api[year] = [users, rosters, weeks]
    players,  \* whether GET /players/nfl answers
    files,    \* names of the ledger files that exist
    mFile,    \* lines of processed_weeks_margin_calculator.log
    hFile,    \* lines of processed_weeks_highest_scorer.log
    sheets,   \* worksheets of the spreadsheet, by title
    pc,       \* position of each run of the program
    mc,       \* MarginCalculator instance and run() locals of each run
    hs,       \* HighestScorerProcessor instance and locals of each run
    obs,      \* what each run has done so far (history, read by the properties)
    env,      \* history across runs (runs started, upstream changes, overlap,
              \* termination)
    calc      \* input and result of the week-level computations (SpecCalc)

vars == <<api, players, files, mFile, hFile, sheets, pc, mc, hs, obs, env, calc>>

----------------------------------------------------------------------------
(* Bounds *)

\* weeks of a season examined by the model (the code's range(1, 19))
NumWeeks == 2
\* runs of the program started in one behaviour
MaxRuns == 2
\* changes of the upstream data in one behaviour
MaxChanges == 1
\* matchups of a generated week (SpecCalc, margins)
MaxMatchups == 4
\* matchups of a generated week (SpecCalc, starters)
MaxRosters == 3
\* largest score of a generated matchup or starter (SpecCalc)
MaxPoints == 2

----------------------------------------------------------------------------
(* Configuration: config['league_ids'], in the order of the JSON object *)

LeagueIds ==
    << [year |-> "2024", league_id |-> "L24"],
       [year |-> "2023", league_id |-> "L23"],
       [year |-> "2022", league_id |-> ""] >>

Years == {LeagueIds[i].year : i \in 1..Len(LeagueIds)}

\* the years that have a league, i.e. whose data is fetched
LeagueYears == {LeagueIds[i].year : i \in {j \in 1..Len(LeagueIds) : LeagueIds[j].league_id /= ""}}

Weeks == 1..NumWeeks

\* int(year)
IntYear(year) ==
    CASE year = "2022" -> 2022
      [] year = "2023" -> 2023
      [] year = "2024" -> 2024

\* f"{year},{week}"
WeekKey(year, week) == <<year, week>>

----------------------------------------------------------------------------
(* Upstream data *)

\* roster_id -> owner_id (get_roster_mappings); roster 5 has no owner entry
RosterOwner(roster_id) ==
    CASE roster_id = 1 -> "u1"
      [] roster_id = 2 -> "u2"
      [] roster_id = 3 -> "u3"
      [] roster_id = 4 -> "u4"
      [] OTHER -> "Unknown"

\* user_id -> display_name (get_user_mappings)
UserName(user_id) ==
    CASE user_id = "u1" -> "A"
      [] user_id = "u2" -> "B"
      [] user_id = "u3" -> "C"
      [] user_id = "u4" -> "D"
      [] OTHER -> "Unknown"

\* the starter of a roster in the sample data
PlayerOf(roster_id) ==
    CASE roster_id = 1 -> "p1"
      [] roster_id = 2 -> "p2"
      [] roster_id = 3 -> "p3"
      [] roster_id = 4 -> "p4"
      [] OTHER -> "p5"

\* player_mapping.get(player_id, {}).get('full_name', 'Unknown Player')
PlayerName(player_id) ==
    CASE player_id = "p1" -> "P One"
      [] player_id = "p2" -> "P Two"
      [] player_id = "p3" -> "P Three"
      [] player_id = "p4" -> "P Four"
      [] OTHER -> "Unknown Player"

\* one element of a matchups response; a missing 'starters_points' is <<>>
Matchup(mid, rid, pts, sp) ==
    [matchup_id |-> mid, roster_id |-> rid, points |-> pts,
     starters |-> <<PlayerOf(rid)>>, starters_points |-> sp]

\* a response: ok is status_code == 200, body the parsed JSON
Response(ok, body) == [ok |-> ok, body |-> body]

\* the responses a week's matchups endpoint gives in the pipeline runs
WeekPayload(name) ==
    CASE name = "fail" -> Response(FALSE, <<>>)
      [] name = "unplayed" ->
            Response(TRUE, << Matchup(1, 1, 0, <<0>>), Matchup(1, 2, 0, <<0>>),
                              Matchup(2, 3, 0, <<0>>), Matchup(2, 4, 0, <<0>>) >>)
      [] name = "played" ->
            Response(TRUE, << Matchup(1, 1, 100, <<60>>), Matchup(2, 3, 70, <<50>>),
                              Matchup(1, 2, 40, <<30>>), Matchup(2, 4, 90, <<65>>),
                              Matchup(3, 5, 80, <<65>>) >>)
      [] name = "partial" ->
            Response(TRUE, << Matchup(1, 1, 50, <<20>>), Matchup(1, 2, 30, <<10>>),
                              Matchup(2, 3, 0, <<0>>), Matchup(2, 4, 0, <<0>>) >>)
      [] name = "bad" ->
            Response(TRUE, << Matchup(1, 1, 50, <<>>), Matchup(1, 2, 30, <<10>>),
                              Matchup(2, 3, 70, <<50>>), Matchup(2, 4, 90, <<65>>) >>)

PayloadNames == {"fail", "unplayed", "played", "partial", "bad"}

----------------------------------------------------------------------------
(* MarginCalculator.process_league: the body of one week *)

RECURSIVE MatchupIdsFrom(_, _, _)
MatchupIdsFrom(matchups, i, ids) ==
    IF i > Len(matchups) THEN ids
    ELSE LET id == matchups[i].matchup_id IN
         IF \E j \in 1..Len(ids) : ids[j] = id
         THEN MatchupIdsFrom(matchups, i + 1, ids)
         ELSE MatchupIdsFrom(matchups, i + 1, Append(ids, id))

\* the keys of matchup_dict, in insertion order
MatchupIds(matchups) == MatchupIdsFrom(matchups, 1, <<>>)

\* matchup_dict[matchup_id]
TeamsOf(matchups, id) == SelectSeq(matchups, LAMBDA m : m.matchup_id = id)

Abs(x) == IF x >= 0 THEN x ELSE -x

\* the dictionary with the test points1 > points2: a tie goes to team2
MarginEntry_tie_to_second(year, week, team1, team2) ==
    LET points1 == team1.points
        points2 == team2.points
        owner_name1 == UserName(RosterOwner(team1.roster_id))
        owner_name2 == UserName(RosterOwner(team2.roster_id))
        first == points1 > points2
    IN  [Year |-> IntYear(year),
         Week |-> week,
         Winner |-> IF first THEN owner_name1 ELSE owner_name2,
         Loser |-> IF first THEN owner_name2 ELSE owner_name1,
         WinnerPoints |-> IF first THEN points1 ELSE points2,
         LoserPoints |-> IF first THEN points2 ELSE points1,
         Margin |-> Abs(points1 - points2)]

\* the dictionary appended to margins for team1, team2 = teams
MarginEntry(year, week, team1, team2) ==
    LET points1 == team1.points
        points2 == team2.points
        owner_name1 == UserName(RosterOwner(team1.roster_id))
        owner_name2 == UserName(RosterOwner(team2.roster_id))
        first == points1 >= points2
    IN  [Year |-> IntYear(year),
         Week |-> week,
         Winner |-> IF first THEN owner_name1 ELSE owner_name2,
         Loser |-> IF first THEN owner_name2 ELSE owner_name1,
         WinnerPoints |-> IF first THEN points1 ELSE points2,
         LoserPoints |-> IF first THEN points2 ELSE points1,
         Margin |-> Abs(points1 - points2)]

\* the loop over matchup_dict.items(): the margins collected and whether the
\* loop broke on a pair with both sides at zero
RECURSIVE ScanPairs(_, _, _, _, _)
ScanPairs(ids, matchups, year, week, margins) ==
    IF ids = <<>> THEN [stop |-> FALSE, margins |-> margins]
    ELSE LET teams == TeamsOf(matchups, Head(ids)) IN
         IF Len(teams) /= 2
         THEN ScanPairs(Tail(ids), matchups, year, week, margins)
         ELSE LET entry == MarginEntry(year, week, teams[1], teams[2]) IN
              IF entry.WinnerPoints = 0 /\ entry.LoserPoints = 0
              THEN [stop |-> TRUE, margins |-> margins]
              ELSE ScanPairs(Tail(ids), matchups, year, week, Append(margins, entry))

\* the scan with the break that leaves stop_processing unset
WeekMarginsNoStop(matchups, year, week) ==
    [ScanPairs(MatchupIds(matchups), matchups, year, week, <<>>) EXCEPT !.stop = FALSE]

WeekMargins(matchups, year, week) ==
    ScanPairs(MatchupIds(matchups), matchups, year, week, <<>>)

\* max(margins, key=lambda x: x['Margin']): the first of the largest
RECURSIVE MaxByMargin(_, _)
MaxByMargin(margins, best) ==
    IF margins = <<>> THEN best
    ELSE MaxByMargin(Tail(margins),
                     IF Head(margins).Margin > best.Margin THEN Head(margins) ELSE best)

\* the maximum taken with the last record as the first candidate
largest_margin_last(margins) == MaxByMargin(margins, margins[Len(margins)])

largest_margin(margins) == MaxByMargin(Tail(margins), Head(margins))

\* min(margins, key=lambda x: x['Margin']): the first of the smallest
RECURSIVE MinByMargin(_, _)
MinByMargin(margins, best) ==
    IF margins = <<>> THEN best
    ELSE MinByMargin(Tail(margins),
                     IF Head(margins).Margin < best.Margin THEN Head(margins) ELSE best)

smallest_margin(margins) == MinByMargin(Tail(margins), Head(margins))

\* list.sort(key=lambda x: (x['Year'], x['Week'])): a stable sort
YearWeekLess(a, b) == a.Year < b.Year \/ (a.Year = b.Year /\ a.Week < b.Week)

RECURSIVE InsertSorted(_, _)
InsertSorted(sorted, x) ==
    IF sorted = <<>> THEN <<x>>
    ELSE IF YearWeekLess(x, Head(sorted)) THEN <<x>> \o sorted
         ELSE <<Head(sorted)>> \o InsertSorted(Tail(sorted), x)

RECURSIVE SortByYearWeek(_)
SortByYearWeek(entries) ==
    IF entries = <<>> THEN <<>>
    ELSE InsertSorted(SortByYearWeek(SubSeq(entries, 1, Len(entries) - 1)),
                      entries[Len(entries)])

----------------------------------------------------------------------------
(* HighestScorerProcessor.process_week *)

NoScorer ==
    [found |-> FALSE, player_id |-> "", points |-> 0, user_id |-> "",
     display_name |-> "", player_name |-> ""]

\* the loop over starters_with_points of one matchup
RECURSIVE ScanStarters(_, _, _)
ScanStarters(matchup, idx, best) ==
    IF idx > Len(matchup.starters) THEN best
    ELSE LET points == matchup.starters_points[idx]
             user_id == RosterOwner(matchup.roster_id)
         IN  ScanStarters(matchup, idx + 1,
                 IF ~best.found \/ points > best.points
                 THEN [found |-> TRUE,
                       player_id |-> matchup.starters[idx],
                       points |-> points,
                       user_id |-> user_id,
                       display_name |-> UserName(user_id),
                       player_name |-> PlayerName(matchup.starters[idx])]
                 ELSE best)

\* starters_points[idx] raises IndexError while starters_with_points is built
RaisesIndexError(matchup) == Len(matchup.starters_points) < Len(matchup.starters)

\* the loop over matchups inside the try: an exception ends it and leaves
\* highest_points and highest_scorer as they are
RECURSIVE ScanMatchups(_, _)
ScanMatchups(matchups, best) ==
    IF matchups = <<>> THEN best
    ELSE IF RaisesIndexError(Head(matchups)) THEN best
         ELSE ScanMatchups(Tail(matchups), ScanStarters(Head(matchups), 1, best))

\* process_week with the final test highest_points < 0
process_week_negative_only(matchups_resp, rosters_ok, users_ok, players_ok) ==
    IF ~matchups_resp.ok \/ ~rosters_ok \/ ~users_ok \/ ~players_ok
    THEN [kind |-> "raise", scorer |-> NoScorer]
    ELSE LET best == ScanMatchups(matchups_resp.body, NoScorer) IN
         IF ~best.found \/ best.points < 0
         THEN [kind |-> "none", scorer |-> NoScorer]
         ELSE [kind |-> "scorer", scorer |-> best]

\* process_week: "raise" is the UnboundLocalError of line 705 after a failed
\* request of the matchups, the rosters, the users or the players
\* (highest_points is assigned only after the four requests), "none" is
\* return None, "scorer" is return highest_scorer
process_week(matchups_resp, rosters_ok, users_ok, players_ok) ==
    IF ~matchups_resp.ok \/ ~rosters_ok \/ ~users_ok \/ ~players_ok
    THEN [kind |-> "raise", scorer |-> NoScorer]
    ELSE LET best == ScanMatchups(matchups_resp.body, NoScorer) IN
         IF ~best.found \/ best.points <= 0
         THEN [kind |-> "none", scorer |-> NoScorer]
         ELSE [kind |-> "scorer", scorer |-> best]

----------------------------------------------------------------------------
(* Worksheets (gspread) *)

LARGEST == "Largest Margin"
SMALLEST == "Smallest Margin"
SHEET_NAME == "Most Points Generated by Rostered Player All-Time"

TabNames == {LARGEST, SMALLEST, SHEET_NAME}

\* headers of upload_results
MarginHeaders ==
    <<"Year", "Week", "Winner", "Loser", "Winner Points", "Loser Points", "Margin">>

\* headers of HighestScorerProcessor.__init__
ScorerHeaders ==
    <<"Year", "Week", "Display Name", "Player Name", "Points", "Player ID">>

NoSheet == [exists |-> FALSE, rows |-> <<>>]

\* sheet_exists
sheet_exists(name) == sheets[name].exists

\* spreadsheet.add_worksheet(title=...) raises APIError: the title is taken
add_worksheet_raises(name) == sheets[name].exists

\* the worksheet spreadsheet.add_worksheet creates
add_worksheet == [exists |-> TRUE, rows |-> <<>>]

\* a == b of two values a worksheet may hold: a number never equals a text
SameValue(a, b) == ToString(a) = ToString(b)

\* worksheet.row_values(1)
row_values1(rows) == IF Len(rows) = 0 THEN <<>> ELSE rows[1]

\* ensure_headers: existing_headers != headers
headers_differ(rows, headers) == ~SameValue(row_values1(rows), headers)

\* worksheet.insert_row(values, index=1)
insert_row(rows, values) == <<values>> \o rows

\* worksheet.get_all_records(): row 1 gives the keys of every later row
get_all_records(rows) ==
    IF Len(rows) < 2 THEN <<>>
    ELSE [i \in 1..(Len(rows) - 1) |-> [keys |-> rows[1], values |-> rows[i + 1]]]

\* key in row, for a record of get_all_records
HasKey(record, key) ==
    \E j \in 1..Len(record.keys) : SameValue(record.keys[j], key)

\* row[key]: the cell under the key, '' when the row ends before it
RecordValue(record, key) ==
    LET j == CHOOSE k \in 1..Len(record.keys) : SameValue(record.keys[k], key) IN
    IF j <= Len(record.values) THEN record.values[j] ELSE ""

\* the texts of the numbers
NumberTexts == {ToString(n) : n \in 0..3000}

\* int(value) returns
IsNumber(value) == ToString(value) \in NumberTexts

\* existing_rows of upload_results raises: KeyError of row['Year'], row['Week'],
\* or ValueError of int()
existing_rows_raises(rows) ==
    \E i \in 1..Len(get_all_records(rows)) :
        LET row == get_all_records(rows)[i] IN
        \/ ~HasKey(row, "Year")
        \/ ~HasKey(row, "Week")
        \/ ~IsNumber(RecordValue(row, "Year"))
        \/ ~IsNumber(RecordValue(row, "Week"))

\* existing_rows of upload_results: (int(row['Year']), int(row['Week']))
\* (int() of a numeric cell is the cell; a text cell makes int() raise, which is
\* existing_rows_raises, tested by URead before this operator is applied)
existing_rows(rows) ==
    LET records == get_all_records(rows) IN
    [i \in 1..Len(records) |->
        <<RecordValue(records[i], "Year"), RecordValue(records[i], "Week")>>]

\* the row upload_results writes for an entry
EntryRow(entry) ==
    <<entry.Year, entry.Week, entry.Winner, entry.Loser,
      entry.WinnerPoints, entry.LoserPoints, entry.Margin>>

\* rows of upload_results when process_all_data
AllRows(data) == [i \in 1..Len(data) |-> EntryRow(data[i])]

\* key not in existing_rows
IsNewKey(entry, existing) ==
    ~\E i \in 1..Len(existing) : existing[i] = <<entry.Year, entry.Week>>

\* new_rows without the test key not in existing_rows
new_rows_unchecked(data, existing) == AllRows(data)

\* new_rows of upload_results
new_rows(data, existing) ==
    AllRows(SelectSeq(data, LAMBDA entry : IsNewKey(entry, existing)))

\* the row process_year appends for highest_scorer
ScorerRow(year, week, scorer) ==
    <<IntYear(year), week, scorer.display_name, scorer.player_name,
      scorer.points, scorer.player_id>>

----------------------------------------------------------------------------
(* Ledgers *)

\* MarginCalculator.__init__: the default of processed_weeks_file
MARGIN_LOG == "processed_weeks_margin_calculator.log"
\* HighestScorerProcessor.__init__: the default of processed_weeks_file
SCORER_LOG == "processed_weeks_highest_scorer.log"

LedgerFiles == {MARGIN_LOG, SCORER_LOG}

\* os.path.exists(self.processed_weeks_file): the file is there, with or
\* without lines (open(file, 'a') creates it before a line is written)
ledger_exists(name) == name \in files

\* the set holding the last line of the file only
load_processed_weeks_last_line(file) ==
    IF file = <<>> THEN {} ELSE {file[Len(file)]}

\* load_processed_weeks / read_processed_weeks: the set of the file's lines
load_processed_weeks(file) == {file[i] : i \in 1..Len(file)}

\* is_week_processed answering False for every week
is_week_processed_never(processed_weeks, year, week) == FALSE

\* is_week_processed
is_week_processed(processed_weeks, year, week) ==
    WeekKey(year, week) \in processed_weeks

----------------------------------------------------------------------------
(* State *)

\* the runs of the program; Spec starts them one after the other
Procs == {"run1", "run2"}

McIdle ==
    [processed_weeks |-> {}, largest_margin_sheet_exists |-> FALSE,
     smallest_margin_sheet_exists |-> FALSE, process_all_data |-> FALSE, league |-> 1, week |-> 1,
     user_mapping |-> FALSE, stop_processing |-> FALSE,
     largest_margins |-> <<>>, smallest_margins |-> <<>>,
     sheet_name |-> "", existing |-> <<>>,
     file |-> "closed"]   \* the file object of save_processed_week: "closed",
                          \* "open", or "unlinked" when the file it was opened
                          \* on has been removed since

HsIdle ==
    [processed_weeks |-> {}, league |-> 1, week |-> 1, matchups |-> "",
     highest_scorer |-> NoScorer,
     file |-> "closed"]   \* the file object of save_processed_week, as above

\* history of one run
ObsIdle ==
    [repeat |-> FALSE,    \* the run before completed its margin run, on the same data
     before |-> [n \in TabNames |-> NoSheet],   \* the worksheets when the run began
     seen |-> [n \in TabNames |-> <<>>],  \* rows upload_results read from a worksheet
     uploaded |-> {},     \* worksheets for which upload_results has returned
     mLeagues |-> {},     \* years whose users and rosters the margin run received
     mFetched |-> {},     \* weeks whose matchups the margin run fetched
     mGot |-> {},         \* <<year, week, response>> of the weeks it fetched
     mHalted |-> {},      \* weeks on which it stopped a league (both sides at zero)
     mMarked |-> {},      \* weeks it marked processed
     mAppended |-> 0,     \* rows it appended to the two margin worksheets
     hExamined |-> {},    \* weeks for which the scorer run called process_week
     hGot |-> {},         \* <<year, week, response>> of the weeks it examined
     hFailed |-> {},      \* weeks whose rosters, users or players request failed
     hHalted |-> {},      \* weeks on which it stopped a league (no valid scorer)
     hAppended |-> <<>>,  \* weeks whose row it appended, in order
     hMarked |-> <<>>]    \* weeks it marked processed, in order

AllIdle == \A p \in Procs : pc[p] = "idle"

\* before the first run every request is answered, and a week is not yet
\* played, being played or played
InitNames == {"unplayed", "partial", "played"}

InitApi ==
    [LeagueYears -> [users : {TRUE}, rosters : {TRUE}, weeks : [Weeks -> InitNames]]]

NoCalc == [kind |-> "none", input |-> <<>>, done |-> FALSE,
           stop |-> FALSE, margins |-> <<>>,
           result |-> [kind |-> "none", scorer |-> NoScorer]]

Init ==
    /\ api \in InitApi
    /\ players = TRUE
    /\ files = {}
    /\ mFile = <<>>
    /\ hFile = <<>>
    /\ sheets = [n \in TabNames |-> NoSheet]
    /\ pc = [p \in Procs |-> "idle"]
    /\ mc = [p \in Procs |-> McIdle]
    /\ hs = [p \in Procs |-> HsIdle]
    /\ obs = [p \in Procs |-> ObsIdle]
    /\ env = [runs |-> 0, changes |-> 0, changed |-> FALSE, marginDone |-> FALSE,
             overlapped |-> FALSE, killed |-> FALSE]
    /\ calc = NoCalc

\* the response of GET /league/{league_id}/matchups/{week}
fetch_matchups(year, week) == WeekPayload(api[year].weeks[week])

\* GET /league/{league_id}/users answers with the users of the league
users_answer(year) == api[year].users

\* GET /league/{league_id}/rosters answers with the rosters of the league
rosters_answer(year) == api[year].rosters

\* GET /players/nfl answers
players_answer == players

----------------------------------------------------------------------------
(* The environment *)

\* the upstream data of one week changes
Upstream(year, week, name) ==
    /\ env.changes < MaxChanges
    /\ api[year].weeks[week] /= name
    /\ api' = [api EXCEPT ![year].weeks[week] = name]
    /\ env' = [env EXCEPT !.changes = @ + 1, !.changed = TRUE]
    /\ UNCHANGED <<players, files, mFile, hFile, sheets, pc, mc, hs, obs, calc>>

\* the users endpoint of a league starts or stops answering
UpstreamUsers(year) ==
    /\ env.changes < MaxChanges
    /\ api' = [api EXCEPT ![year].users = ~@]
    /\ env' = [env EXCEPT !.changes = @ + 1, !.changed = TRUE]
    /\ UNCHANGED <<players, files, mFile, hFile, sheets, pc, mc, hs, obs, calc>>

\* the rosters endpoint of a league starts or stops answering
UpstreamRosters(year) ==
    /\ env.changes < MaxChanges
    /\ api' = [api EXCEPT ![year].rosters = ~@]
    /\ env' = [env EXCEPT !.changes = @ + 1, !.changed = TRUE]
    /\ UNCHANGED <<players, files, mFile, hFile, sheets, pc, mc, hs, obs, calc>>

\* the players endpoint starts or stops answering
UpstreamPlayers ==
    /\ env.changes < MaxChanges
    /\ players' = ~players
    /\ env' = [env EXCEPT !.changes = @ + 1, !.changed = TRUE]
    /\ UNCHANGED <<api, files, mFile, hFile, sheets, pc, mc, hs, obs, calc>>

----------------------------------------------------------------------------
(* __main__ and MarginCalculator *)

\* python main.py is started
Start(p) ==
    /\ pc[p] = "idle"
    /\ env.runs < MaxRuns
    /\ pc' = [pc EXCEPT ![p] = "m_auth"]
    /\ obs' = [obs EXCEPT ![p] = [ObsIdle EXCEPT
                    !.repeat = env.marginDone /\ ~env.changed,
                    !.before = sheets]]
    /\ env' = [env EXCEPT !.runs = @ + 1, !.changed = FALSE, !.marginDone = FALSE,
                          !.overlapped = @ \/ \E q \in Procs : pc[q] /= "idle"]
    /\ UNCHANGED <<api, players, files, mFile, hFile, sheets, mc, hs, calc>>

\* process_all_data set whatever sheets exist
process_all_data_always(largest_margin_sheet_exists, smallest_margin_sheet_exists) ==
    TRUE

\* self.process_all_data of __init__: either margin sheet is missing
process_all_data(largest_margin_sheet_exists, smallest_margin_sheet_exists) ==
    ~(largest_margin_sheet_exists /\ smallest_margin_sheet_exists)

\* MarginCalculator.__init__: authorize_google_sheets() and open_by_key(); the
\* credential file is readable and the spreadsheet exists (an unreadable file is
\* SMarginInit)
MAuthorize(p) ==
    /\ pc[p] = "m_auth"
    /\ pc' = [pc EXCEPT ![p] = "m_init"]
    /\ UNCHANGED <<api, players, files, mFile, hFile, sheets, mc, hs, obs, env, calc>>

\* MarginCalculator.__init__, load_processed_weeks: processed_weeks = set() and
\* the test os.path.exists
MLedgerExists(p) ==
    /\ pc[p] = "m_init"
    /\ mc' = [mc EXCEPT ![p] = McIdle]
    /\ pc' = [pc EXCEPT ![p] = IF ledger_exists(MARGIN_LOG) THEN "m_read" ELSE "m_exists"]
    /\ UNCHANGED <<api, players, files, mFile, hFile, sheets, hs, obs, env, calc>>

\* MarginCalculator.__init__, load_processed_weeks: open(file, 'r') and the
\* loop over the lines; a file removed since the test makes open raise
\* FileNotFoundError, which leaves __init__ and __main__
MLedgerRead(p) ==
    /\ pc[p] = "m_read"
    /\ IF ledger_exists(MARGIN_LOG)
       THEN /\ mc' = [mc EXCEPT ![p].processed_weeks = load_processed_weeks(mFile)]
            /\ pc' = [pc EXCEPT ![p] = "m_exists"]
       ELSE /\ mc' = mc
            /\ pc' = [pc EXCEPT ![p] = "m_crashed"]
    /\ UNCHANGED <<api, players, files, mFile, hFile, sheets, hs, obs, env, calc>>

\* MarginCalculator.__init__: sheet_exists("Largest Margin"), then
\* sheet_exists("Smallest Margin") and process_all_data
MSheetExists(p) ==
    /\ pc[p] \in {"m_exists", "m_exists2"}
    /\ IF pc[p] = "m_exists"
       THEN /\ mc' = [mc EXCEPT ![p].largest_margin_sheet_exists = sheet_exists(LARGEST)]
            /\ pc' = [pc EXCEPT ![p] = "m_exists2"]
       ELSE /\ mc' = [mc EXCEPT
                   ![p].smallest_margin_sheet_exists = sheet_exists(SMALLEST),
                   ![p].process_all_data =
                       process_all_data(mc[p].largest_margin_sheet_exists,
                                        sheet_exists(SMALLEST))]
            /\ pc' = [pc EXCEPT ![p] = "m_league"]
    /\ UNCHANGED <<api, players, files, mFile, hFile, sheets, hs, obs, env, calc>>

\* run(): the head of the loop over league_ids
MLeague(p) ==
    /\ pc[p] = "m_league"
    /\ LET i == mc[p].league IN
       IF i > Len(LeagueIds)
       THEN /\ pc' = [pc EXCEPT ![p] = "m_publish"]
            /\ mc' = mc
       ELSE IF LeagueIds[i].league_id = ""
            THEN /\ mc' = [mc EXCEPT ![p].league = i + 1]
                 /\ pc' = pc
            ELSE /\ mc' = mc
                 /\ pc' = [pc EXCEPT ![p] = "m_users"]
    /\ UNCHANGED <<api, players, files, mFile, hFile, sheets, hs, obs, env, calc>>

\* process_league: user_mapping = self.get_user_mappings(league_id); a request
\* that fails gives the empty mapping
MUsers(p) ==
    /\ pc[p] = "m_users"
    /\ mc' = [mc EXCEPT ![p].user_mapping = users_answer(LeagueIds[mc[p].league].year)]
    /\ pc' = [pc EXCEPT ![p] = "m_rosters"]
    /\ UNCHANGED <<api, players, files, mFile, hFile, sheets, hs, obs, env, calc>>

\* process_league: roster_mapping = self.get_roster_mappings(league_id), and
\* the return when either mapping is empty
MRosters(p) ==
    /\ pc[p] = "m_rosters"
    /\ LET i == mc[p].league
           roster_mapping == rosters_answer(LeagueIds[i].year)
       IN  IF ~mc[p].user_mapping \/ ~roster_mapping
           THEN /\ mc' = [mc EXCEPT ![p].league = i + 1, ![p].user_mapping = FALSE]
                /\ pc' = [pc EXCEPT ![p] = "m_league"]
                /\ obs' = obs
           ELSE /\ mc' = [mc EXCEPT ![p].week = 1]
                /\ pc' = [pc EXCEPT ![p] = "m_week"]
                /\ obs' = [obs EXCEPT ![p].mLeagues = @ \cup {LeagueIds[i].year}]
    /\ UNCHANGED <<api, players, files, mFile, hFile, sheets, hs, env, calc>>

\* the iteration with save_processed_week called before the check of
\* stop_processing
margin_week_mark_on_stop(self, year, week, resp) ==
    IF ~self.process_all_data /\ is_week_processed(self.processed_weeks, year, week)
    THEN [fetched |-> FALSE, stop |-> FALSE, mark |-> FALSE, margins |-> <<>>]
    ELSE IF ~resp.ok \/ resp.body = <<>>
         THEN [fetched |-> TRUE, stop |-> FALSE, mark |-> FALSE, margins |-> <<>>]
         ELSE LET r == WeekMargins(resp.body, year, week) IN
              [fetched |-> TRUE, stop |-> r.stop,
               mark |-> r.stop \/ r.margins /= <<>>,
               margins |-> IF r.stop THEN <<>> ELSE r.margins]

\* the test of line 373 without "not self.process_all_data"
margin_week_skipped_by_ledger(self, year, week) ==
    is_week_processed(self.processed_weeks, year, week)

\* the week is skipped as already processed (line 373)
margin_week_skipped(self, year, week) ==
    ~self.process_all_data /\ is_week_processed(self.processed_weeks, year, week)

\* one iteration of the loop over the weeks in process_league: whether it fetched
\* the week, whether it broke out of the loop, the margins from which it appended
\* the largest and the smallest, and whether it called save_processed_week
margin_week(self, year, week, resp) ==
    IF margin_week_skipped(self, year, week)
    THEN [fetched |-> FALSE, stop |-> FALSE, mark |-> FALSE, margins |-> <<>>]
    ELSE IF ~resp.ok \/ resp.body = <<>>
         THEN [fetched |-> TRUE, stop |-> FALSE, mark |-> FALSE, margins |-> <<>>]
         ELSE LET r == WeekMargins(resp.body, year, week) IN
              [fetched |-> TRUE, stop |-> r.stop,
               mark |-> ~r.stop /\ r.margins /= <<>>,
               margins |-> IF r.stop THEN <<>> ELSE r.margins]

\* one iteration of the loop over the weeks, up to the call of
\* save_processed_week
MWeek(p) ==
    /\ pc[p] = "m_week"
    /\ LET self == mc[p]
           year == LeagueIds[self.league].year
           week == self.week
           key == WeekKey(year, week)
           r == margin_week(self, year, week, fetch_matchups(year, week))
           last == r.stop \/ week = NumWeeks
       IN  /\ mc' = [mc EXCEPT
                  ![p].largest_margins =
                      IF r.margins /= <<>> THEN Append(@, largest_margin(r.margins))
                      ELSE @,
                  ![p].smallest_margins =
                      IF r.margins /= <<>> THEN Append(@, smallest_margin(r.margins))
                      ELSE @,
                  ![p].stop_processing = r.mark /\ r.stop,
                  ![p].week = IF r.mark THEN @ ELSE IF last THEN 1 ELSE week + 1,
                  ![p].user_mapping = IF ~r.mark /\ last THEN FALSE ELSE @,
                  ![p].league = IF ~r.mark /\ last THEN @ + 1 ELSE @]
           /\ pc' = [pc EXCEPT ![p] =
                  IF r.mark THEN "m_mark" ELSE IF last THEN "m_league" ELSE "m_week"]
           /\ obs' = [obs EXCEPT
                  ![p].mFetched = IF r.fetched THEN @ \cup {key} ELSE @,
                  ![p].mGot = IF r.fetched
                              THEN @ \cup {<<year, week, api[year].weeks[week]>>} ELSE @,
                  ![p].mHalted = IF r.stop THEN @ \cup {key} ELSE @]
    /\ UNCHANGED <<api, players, files, mFile, hFile, sheets, hs, env, calc>>

\* process_league, save_processed_week: open(self.processed_weeks_file, 'a'),
\* which creates the file when it is not there; the file object stays on the
\* file it was opened on
MMarkOpen(p) ==
    /\ pc[p] = "m_mark"
    /\ files' = files \cup {MARGIN_LOG}
    /\ mc' = [mc EXCEPT ![p].file = "open"]
    /\ pc' = [pc EXCEPT ![p] = "m_write"]
    /\ UNCHANGED <<api, players, mFile, hFile, sheets, hs, obs, env, calc>>

\* process_league, save_processed_week: file.write and the end of the with
\* block, where the line reaches the file that was opened (a line written to
\* a file removed since open is lost with it, also when a file of the same
\* name has been created since), then self.processed_weeks.add, which changes
\* the instance only, and the loop goes on
MMark(p) ==
    /\ pc[p] = "m_write"
    /\ LET self == mc[p]
           year == LeagueIds[self.league].year
           week == self.week
           key == WeekKey(year, week)
           last == self.stop_processing \/ week = NumWeeks
       IN  /\ mFile' = IF self.file = "open" THEN Append(mFile, key) ELSE mFile
           /\ mc' = [mc EXCEPT
                  ![p].file = "closed",
                  ![p].processed_weeks = @ \cup {key},
                  ![p].stop_processing = FALSE,
                  ![p].week = IF last THEN 1 ELSE week + 1,
                  ![p].user_mapping = IF last THEN FALSE ELSE @,
                  ![p].league = IF last THEN @ + 1 ELSE @]
           /\ pc' = [pc EXCEPT ![p] = IF last THEN "m_league" ELSE "m_week"]
           /\ obs' = [obs EXCEPT ![p].mMarked = @ \cup {key}]
    /\ UNCHANGED <<api, players, files, hFile, sheets, hs, env, calc>>

\* run(): if largest_margins / if smallest_margins, with the sort
MPublish(p) ==
    /\ pc[p] \in {"m_publish", "m_publish2"}
    /\ LET name == IF pc[p] = "m_publish" THEN LARGEST ELSE SMALLEST
           data == IF pc[p] = "m_publish" THEN mc[p].largest_margins
                   ELSE mc[p].smallest_margins
       IN  IF data = <<>>
           THEN /\ pc' = [pc EXCEPT ![p] =
                        IF pc[p] = "m_publish" THEN "m_publish2" ELSE "m_done"]
                /\ mc' = mc
           ELSE /\ pc' = [pc EXCEPT ![p] = "u_open"]
                /\ mc' = [mc EXCEPT
                       ![p].sheet_name = name,
                       ![p].largest_margins =
                           IF name = LARGEST THEN SortByYearWeek(@) ELSE @,
                       ![p].smallest_margins =
                           IF name = SMALLEST THEN SortByYearWeek(@) ELSE @]
    /\ UNCHANGED <<api, players, files, mFile, hFile, sheets, hs, obs, env, calc>>

\* the data argument of the upload_results call in progress
upload_data(self) ==
    IF self.sheet_name = LARGEST THEN self.largest_margins ELSE self.smallest_margins

\* where run() goes on after upload_results returns
after_upload(self) ==
    IF self.sheet_name = LARGEST THEN "m_publish2" ELSE "m_done"

\* upload_results, open_or_create_sheet: spreadsheet.worksheet(sheet_name)
UOpen(p) ==
    /\ pc[p] = "u_open"
    /\ pc' = [pc EXCEPT ![p] =
                 IF sheet_exists(mc[p].sheet_name) THEN "u_headers" ELSE "u_add"]
    /\ UNCHANGED <<api, players, files, mFile, hFile, sheets, mc, hs, obs, env, calc>>

\* upload_results, open_or_create_sheet: spreadsheet.add_worksheet
UAddWorksheet(p) ==
    /\ pc[p] = "u_add"
    /\ IF add_worksheet_raises(mc[p].sheet_name)
       THEN /\ pc' = [pc EXCEPT ![p] = "m_crashed"]
            /\ sheets' = sheets
       ELSE /\ pc' = [pc EXCEPT ![p] = "u_headers"]
            /\ sheets' = [sheets EXCEPT ![mc[p].sheet_name] = add_worksheet]
    /\ UNCHANGED <<api, players, files, mFile, hFile, mc, hs, obs, env, calc>>

\* upload_results, ensure_headers: worksheet.row_values(1) and the comparison
UHeaders(p) ==
    /\ pc[p] = "u_headers"
    /\ pc' = [pc EXCEPT ![p] =
                 IF headers_differ(sheets[mc[p].sheet_name].rows, MarginHeaders)
                 THEN "u_insert"
                 ELSE IF mc[p].process_all_data THEN "u_clear" ELSE "u_read"]
    /\ UNCHANGED <<api, players, files, mFile, hFile, sheets, mc, hs, obs, env, calc>>

\* upload_results, ensure_headers: worksheet.insert_row(headers, index=1)
UInsertRow(p) ==
    /\ pc[p] = "u_insert"
    /\ sheets' = [sheets EXCEPT ![mc[p].sheet_name].rows = insert_row(@, MarginHeaders)]
    /\ pc' = [pc EXCEPT ![p] = IF mc[p].process_all_data THEN "u_clear" ELSE "u_read"]
    /\ UNCHANGED <<api, players, files, mFile, hFile, mc, hs, obs, env, calc>>

\* upload_results, process_all_data: worksheet.clear()
UClear(p) ==
    /\ pc[p] = "u_clear"
    /\ sheets' = [sheets EXCEPT ![mc[p].sheet_name].rows = <<>>]
    /\ pc' = [pc EXCEPT ![p] = "u_header_row"]
    /\ UNCHANGED <<api, players, files, mFile, hFile, mc, hs, obs, env, calc>>

\* upload_results, process_all_data: worksheet.append_row(headers)
UHeaderRow(p) ==
    /\ pc[p] = "u_header_row"
    /\ sheets' = [sheets EXCEPT ![mc[p].sheet_name].rows = Append(@, MarginHeaders)]
    /\ pc' = [pc EXCEPT ![p] = "u_rows"]
    /\ UNCHANGED <<api, players, files, mFile, hFile, mc, hs, obs, env, calc>>

\* upload_results, process_all_data: worksheet.append_rows(rows)
URows(p) ==
    /\ pc[p] = "u_rows"
    /\ sheets' = [sheets EXCEPT ![mc[p].sheet_name].rows =
                      @ \o AllRows(upload_data(mc[p]))]
    /\ obs' = [obs EXCEPT ![p].mAppended = @ + Len(AllRows(upload_data(mc[p]))),
                          ![p].uploaded = @ \cup {mc[p].sheet_name}]
    /\ pc' = [pc EXCEPT ![p] = after_upload(mc[p])]
    /\ UNCHANGED <<api, players, files, mFile, hFile, mc, hs, env, calc>>

\* upload_results, incremental: worksheet.get_all_records() and existing_rows;
\* a record without the two keys or with a cell that is not a number raises
URead(p) ==
    /\ pc[p] = "u_read"
    /\ LET rows == sheets[mc[p].sheet_name].rows IN
       IF existing_rows_raises(rows)
       THEN /\ mc' = mc
            /\ pc' = [pc EXCEPT ![p] = "m_crashed"]
       ELSE /\ mc' = [mc EXCEPT ![p].existing = existing_rows(rows)]
            /\ pc' = [pc EXCEPT ![p] = "u_append"]
    /\ obs' = [obs EXCEPT ![p].seen[mc[p].sheet_name] = sheets[mc[p].sheet_name].rows]
    /\ UNCHANGED <<api, players, files, mFile, hFile, sheets, hs, env, calc>>

\* upload_results, incremental: worksheet.append_rows(new_rows) if new_rows
UAppend(p) ==
    /\ pc[p] = "u_append"
    /\ sheets' = [sheets EXCEPT ![mc[p].sheet_name].rows =
                      @ \o new_rows(upload_data(mc[p]), mc[p].existing)]
    /\ obs' = [obs EXCEPT ![p].mAppended =
                      @ + Len(new_rows(upload_data(mc[p]), mc[p].existing)),
                          ![p].uploaded = @ \cup {mc[p].sheet_name}]
    /\ mc' = [mc EXCEPT ![p].existing = <<>>]
    /\ pc' = [pc EXCEPT ![p] = after_upload(mc[p])]
    /\ UNCHANGED <<api, players, files, mFile, hFile, hs, env, calc>>

----------------------------------------------------------------------------
(* HighestScorerProcessor *)

\* __init__: authorize_google_sheets() and open_by_key(), as in MAuthorize
HAuthorize(p) ==
    /\ pc[p] = "m_done"
    /\ pc' = [pc EXCEPT ![p] = "h_open"]
    /\ UNCHANGED <<api, players, files, mFile, hFile, sheets, mc, hs, obs, env, calc>>

\* __init__, open_or_create_sheet(SHEET_NAME): spreadsheet.worksheet
HOpen(p) ==
    /\ pc[p] = "h_open"
    /\ pc' = [pc EXCEPT ![p] = IF sheet_exists(SHEET_NAME) THEN "h_headers" ELSE "h_add"]
    /\ UNCHANGED <<api, players, files, mFile, hFile, sheets, mc, hs, obs, env, calc>>

\* __init__, open_or_create_sheet(SHEET_NAME): spreadsheet.add_worksheet
HAddWorksheet(p) ==
    /\ pc[p] = "h_add"
    /\ IF add_worksheet_raises(SHEET_NAME)
       THEN /\ pc' = [pc EXCEPT ![p] = "h_init_crashed"]
            /\ sheets' = sheets
       ELSE /\ pc' = [pc EXCEPT ![p] = "h_headers"]
            /\ sheets' = [sheets EXCEPT ![SHEET_NAME] = add_worksheet]
    /\ UNCHANGED <<api, players, files, mFile, hFile, mc, hs, obs, env, calc>>

\* __init__, ensure_headers: worksheet.row_values(1) and the comparison
HHeaders(p) ==
    /\ pc[p] = "h_headers"
    /\ pc' = [pc EXCEPT ![p] =
                 IF headers_differ(sheets[SHEET_NAME].rows, ScorerHeaders)
                 THEN "h_insert" ELSE "h_ledger"]
    /\ UNCHANGED <<api, players, files, mFile, hFile, sheets, mc, hs, obs, env, calc>>

\* __init__, ensure_headers: worksheet.insert_row(headers, index=1)
HInsertRow(p) ==
    /\ pc[p] = "h_insert"
    /\ sheets' = [sheets EXCEPT ![SHEET_NAME].rows = insert_row(@, ScorerHeaders)]
    /\ pc' = [pc EXCEPT ![p] = "h_ledger"]
    /\ UNCHANGED <<api, players, files, mFile, hFile, mc, hs, obs, env, calc>>

\* __init__, read_processed_weeks: processed_weeks = set() and the test
\* os.path.exists
HLedgerExists(p) ==
    /\ pc[p] = "h_ledger"
    /\ hs' = [hs EXCEPT ![p] = HsIdle]
    /\ pc' = [pc EXCEPT ![p] = IF ledger_exists(SCORER_LOG) THEN "h_read" ELSE "h_year"]
    /\ UNCHANGED <<api, players, files, mFile, hFile, sheets, mc, obs, env, calc>>

\* __init__, read_processed_weeks: open(file, 'r') and the loop over the lines
\* (FileNotFoundError when the file has gone since the test)
HLedgerRead(p) ==
    /\ pc[p] = "h_read"
    /\ IF ledger_exists(SCORER_LOG)
       THEN /\ hs' = [hs EXCEPT ![p].processed_weeks = load_processed_weeks(hFile)]
            /\ pc' = [pc EXCEPT ![p] = "h_year"]
       ELSE /\ hs' = hs
            /\ pc' = [pc EXCEPT ![p] = "h_init_crashed"]
    /\ UNCHANGED <<api, players, files, mFile, hFile, sheets, mc, obs, env, calc>>

\* run(): the head of the loop over league_ids
HYear(p) ==
    /\ pc[p] = "h_year"
    /\ LET i == hs[p].league IN
       IF i > Len(LeagueIds)
       THEN /\ pc' = [pc EXCEPT ![p] = "h_done"]
            /\ hs' = hs
       ELSE IF LeagueIds[i].league_id = ""
            THEN /\ hs' = [hs EXCEPT ![p].league = i + 1]
                 /\ pc' = pc
            ELSE /\ hs' = [hs EXCEPT ![p].week = 1]
                 /\ pc' = [pc EXCEPT ![p] = "h_week"]
    /\ UNCHANGED <<api, players, files, mFile, hFile, sheets, mc, obs, env, calc>>

\* the iteration with a cross-check of the week against the rows of the worksheet
scorer_week_cross_checked(self, year, week, resp, rosters_ok, users_ok, players_ok) ==
    IF \/ is_week_processed(self.processed_weeks, year, week)
       \/ \E i \in 2..Len(sheets[SHEET_NAME].rows) :
             /\ sheets[SHEET_NAME].rows[i][1] = IntYear(year)
             /\ sheets[SHEET_NAME].rows[i][2] = week
    THEN [kind |-> "skip", scorer |-> NoScorer]
    ELSE LET r == process_week(resp, rosters_ok, users_ok, players_ok) IN
         IF r.kind = "raise" THEN r
         ELSE IF r.kind = "scorer" THEN [kind |-> "append", scorer |-> r.scorer]
         ELSE [kind |-> "break", scorer |-> NoScorer]

\* the iteration without the test of the ledger
scorer_week_unchecked(self, year, week, resp, rosters_ok, users_ok, players_ok) ==
    LET r == process_week(resp, rosters_ok, users_ok, players_ok) IN
    IF r.kind = "raise" THEN r
    ELSE IF r.kind = "scorer" THEN [kind |-> "append", scorer |-> r.scorer]
    ELSE [kind |-> "break", scorer |-> NoScorer]

\* the iteration that goes on with the next week when there is no valid scorer
scorer_week_no_break(self, year, week, resp, rosters_ok, users_ok, players_ok) ==
    IF is_week_processed(self.processed_weeks, year, week)
    THEN [kind |-> "skip", scorer |-> NoScorer]
    ELSE LET r == process_week(resp, rosters_ok, users_ok, players_ok) IN
         IF r.kind = "raise" THEN r
         ELSE IF r.kind = "scorer" THEN [kind |-> "append", scorer |-> r.scorer]
         ELSE [kind |-> "skip", scorer |-> NoScorer]

\* one iteration of the loop of process_year, up to the call of append_row:
\* "skip" (already processed), "raise", "break" (no valid scorer) or "append"
scorer_week(self, year, week, resp, rosters_ok, users_ok, players_ok) ==
    IF is_week_processed(self.processed_weeks, year, week)
    THEN [kind |-> "skip", scorer |-> NoScorer]
    ELSE LET r == process_week(resp, rosters_ok, users_ok, players_ok) IN
         IF r.kind = "raise" THEN r
         ELSE IF r.kind = "scorer" THEN [kind |-> "append", scorer |-> r.scorer]
         ELSE [kind |-> "break", scorer |-> NoScorer]

\* the loop of process_year goes on with the next week, or run() with the next league
NextScorerWeek(self) ==
    IF self.week = NumWeeks
    THEN [self EXCEPT !.week = 1, !.league = @ + 1, !.highest_scorer = NoScorer]
    ELSE [self EXCEPT !.week = @ + 1, !.highest_scorer = NoScorer]

\* process_year: the test of the ledger, and in process_week the request of
\* the week's matchups (a failed request ends in the UnboundLocalError)
HWeek(p) ==
    /\ pc[p] = "h_week"
    /\ LET self == hs[p]
           year == LeagueIds[self.league].year
           week == self.week
           key == WeekKey(year, week)
           name == api[year].weeks[week]
           r == scorer_week(self, year, week, fetch_matchups(year, week),
                            TRUE, TRUE, TRUE)
       IN  /\ hs' = [hs EXCEPT ![p] =
                  CASE r.kind = "skip" -> NextScorerWeek(self)
                    [] r.kind = "raise" -> self
                    [] OTHER -> [self EXCEPT !.matchups = name]]
           /\ pc' = [pc EXCEPT ![p] =
                  CASE r.kind = "skip" ->
                          IF week = NumWeeks THEN "h_year" ELSE "h_week"
                    [] r.kind = "raise" -> "crashed"
                    [] OTHER -> "h_rosters"]
           /\ obs' = [obs EXCEPT
                  ![p].hExamined = IF r.kind = "skip" THEN @ ELSE @ \cup {key},
                  ![p].hGot = IF r.kind = "skip" THEN @ ELSE @ \cup {<<year, week, name>>}]
    /\ UNCHANGED <<api, players, files, mFile, hFile, sheets, mc, env, calc>>

\* process_week: the request of the rosters (a failed request ends in the
\* UnboundLocalError)
HRosters(p) ==
    /\ pc[p] = "h_rosters"
    /\ LET self == hs[p]
           year == LeagueIds[self.league].year
           r == process_week(WeekPayload(self.matchups), rosters_answer(year), TRUE, TRUE)
       IN  /\ pc' = [pc EXCEPT ![p] = IF r.kind = "raise" THEN "crashed" ELSE "h_users"]
           /\ obs' = [obs EXCEPT ![p].hFailed =
                  IF r.kind = "raise" THEN @ \cup {WeekKey(year, self.week)} ELSE @]
    /\ UNCHANGED <<api, players, files, mFile, hFile, sheets, mc, hs, env, calc>>

\* process_week: the request of the users
HUsers(p) ==
    /\ pc[p] = "h_users"
    /\ LET self == hs[p]
           year == LeagueIds[self.league].year
           r == process_week(WeekPayload(self.matchups), TRUE, users_answer(year), TRUE)
       IN  /\ pc' = [pc EXCEPT ![p] = IF r.kind = "raise" THEN "crashed" ELSE "h_players"]
           /\ obs' = [obs EXCEPT ![p].hFailed =
                  IF r.kind = "raise" THEN @ \cup {WeekKey(year, self.week)} ELSE @]
    /\ UNCHANGED <<api, players, files, mFile, hFile, sheets, mc, hs, env, calc>>

\* process_week: the request of the players, the loop over the matchups
\* received and the return; process_year: the test of highest_scorer
HPlayers(p) ==
    /\ pc[p] = "h_players"
    /\ LET self == hs[p]
           year == LeagueIds[self.league].year
           week == self.week
           key == WeekKey(year, week)
           r == scorer_week(self, year, week, WeekPayload(self.matchups),
                            TRUE, TRUE, players_answer)
           seen == [self EXCEPT !.matchups = ""]
       IN  /\ hs' = [hs EXCEPT ![p] =
                  CASE r.kind = "skip" -> NextScorerWeek(seen)
                    [] r.kind = "break" -> [seen EXCEPT !.week = 1, !.league = @ + 1]
                    [] r.kind = "append" -> [seen EXCEPT !.highest_scorer = r.scorer]
                    [] OTHER -> self]
           /\ pc' = [pc EXCEPT ![p] =
                  CASE r.kind = "skip" ->
                          IF week = NumWeeks THEN "h_year" ELSE "h_week"
                    [] r.kind = "break" -> "h_year"
                    [] r.kind = "append" -> "h_append"
                    [] OTHER -> "crashed"]
           /\ obs' = [obs EXCEPT
                  ![p].hHalted = IF r.kind = "break" THEN @ \cup {key} ELSE @,
                  ![p].hFailed = IF r.kind = "raise" THEN @ \cup {key} ELSE @]
    /\ UNCHANGED <<api, players, files, mFile, hFile, sheets, mc, env, calc>>

\* process_year: self.worksheet.append_row([...])
HAppend(p) ==
    /\ pc[p] = "h_append"
    /\ LET year == LeagueIds[hs[p].league].year
           week == hs[p].week
       IN  /\ sheets' = [sheets EXCEPT ![SHEET_NAME].rows =
                             Append(@, ScorerRow(year, week, hs[p].highest_scorer))]
           /\ obs' = [obs EXCEPT ![p].hAppended = Append(@, WeekKey(year, week))]
    /\ pc' = [pc EXCEPT ![p] = "h_mark"]
    /\ UNCHANGED <<api, players, files, mFile, hFile, mc, hs, env, calc>>

\* process_year, save_processed_week: open(self.processed_weeks_file, 'a'),
\* which creates the file when it is not there; the file object stays on the
\* file it was opened on
HMarkOpen(p) ==
    /\ pc[p] = "h_mark"
    /\ files' = files \cup {SCORER_LOG}
    /\ hs' = [hs EXCEPT ![p].file = "open"]
    /\ pc' = [pc EXCEPT ![p] = "h_write"]
    /\ UNCHANGED <<api, players, mFile, hFile, sheets, mc, obs, env, calc>>

\* process_year, save_processed_week: file.write and the end of the with block,
\* where the line reaches the file that was opened (a line written to a file
\* removed since open is lost with it, also when a file of the same name has
\* been created since), then self.processed_weeks.add, which changes the
\* instance only
HMark(p) ==
    /\ pc[p] = "h_write"
    /\ LET year == LeagueIds[hs[p].league].year
           week == hs[p].week
           key == WeekKey(year, week)
       IN  /\ hFile' = IF hs[p].file = "open" THEN Append(hFile, key) ELSE hFile
           /\ hs' = [hs EXCEPT ![p] =
                  NextScorerWeek([hs[p] EXCEPT !.file = "closed",
                                               !.processed_weeks = @ \cup {key}])]
           /\ obs' = [obs EXCEPT ![p].hMarked = Append(@, key)]
           /\ pc' = [pc EXCEPT ![p] = IF week = NumWeeks THEN "h_year" ELSE "h_week"]
    /\ UNCHANGED <<api, players, files, mFile, sheets, mc, env, calc>>

\* the positions at which MarginCalculator.run() has returned
AfterMargin == {"m_done", "h_add", "h_headers", "h_insert", "h_ledger", "h_year",
                "h_week", "h_rosters", "h_users", "h_players", "h_append", "h_mark",
                "h_write", "h_done", "h_open", "h_read", "h_init_crashed", "crashed"}

\* the positions at which an exception has left __main__: raised in
\* MarginCalculator.__init__ or run, in HighestScorerProcessor.__init__, in
\* process_week
Crashed == {"m_crashed", "h_init_crashed", "crashed"}

\* the process ends: run() returned, or the exception left __main__
Finish(p) ==
    /\ pc[p] \in {"h_done"} \cup Crashed
    /\ pc' = [pc EXCEPT ![p] = "idle"]
    /\ mc' = [mc EXCEPT ![p] = McIdle]
    /\ hs' = [hs EXCEPT ![p] = HsIdle]
    /\ obs' = [obs EXCEPT ![p] = ObsIdle]
    /\ env' = [env EXCEPT !.marginDone = pc[p] \in AfterMargin]
    /\ UNCHANGED <<api, players, files, mFile, hFile, sheets, calc>>

\* the process is terminated from outside, at any point: between any two
\* accesses to the API, the worksheets and the ledger files, the opening of a
\* ledger file and the writing of its line included
Kill(p) ==
    /\ pc[p] \notin {"idle", "h_done"} \cup Crashed
    /\ pc' = [pc EXCEPT ![p] = "idle"]
    /\ mc' = [mc EXCEPT ![p] = McIdle]
    /\ hs' = [hs EXCEPT ![p] = HsIdle]
    /\ obs' = [obs EXCEPT ![p] = ObsIdle]
    /\ env' = [env EXCEPT !.marginDone = pc[p] \in AfterMargin, !.killed = TRUE]
    /\ UNCHANGED <<api, players, files, mFile, hFile, sheets, calc>>

----------------------------------------------------------------------------
(* Specifications *)

Step(p) ==
    \/ MAuthorize(p) \/ MLedgerExists(p) \/ MLedgerRead(p) \/ MSheetExists(p)
    \/ MLeague(p) \/ MUsers(p) \/ MRosters(p) \/ MWeek(p) \/ MMarkOpen(p) \/ MMark(p) \/ MPublish(p)
    \/ UOpen(p) \/ UAddWorksheet(p) \/ UHeaders(p) \/ UInsertRow(p)
    \/ UClear(p) \/ UHeaderRow(p) \/ URows(p) \/ URead(p) \/ UAppend(p)
    \/ HAuthorize(p) \/ HOpen(p) \/ HAddWorksheet(p) \/ HHeaders(p) \/ HInsertRow(p)
    \/ HLedgerExists(p) \/ HLedgerRead(p)
    \/ HYear(p) \/ HWeek(p) \/ HRosters(p) \/ HUsers(p) \/ HPlayers(p)
    \/ HAppend(p) \/ HMarkOpen(p) \/ HMark(p)
    \/ Finish(p)

Change ==
    \/ \E year \in LeagueYears, week \in Weeks, name \in PayloadNames :
          Upstream(year, week, name)
    \/ \E year \in LeagueYears : UpstreamUsers(year)
    \/ \E year \in LeagueYears : UpstreamRosters(year)
    \/ UpstreamPlayers

\* complete runs, one at a time
Next ==
    \/ AllIdle /\ Start("run1")
    \/ Step("run1")
    \/ Change

Spec == Init /\ [][Next]_vars

\* the older season starts with weeks played up to some week and none being
\* played
InitCrash ==
    /\ Init
    /\ \A week \in Weeks :
          /\ api["2023"].weeks[week] \in {"unplayed", "played"}
          /\ api["2023"].weeks[week] = "played" =>
                \A earlier \in 1..week : api["2023"].weeks[earlier] = "played"

\* runs one at a time, each of which may be terminated at any point
NextCrash ==
    \/ Next
    \/ Kill("run1")

SpecCrash == InitCrash /\ [][NextCrash]_vars

----------------------------------------------------------------------------
(* The week-level computations on generated responses *)

\* matchups responses for the margins: the k-th element is roster k, with a
\* pairing identifier and a score
MarginInputs ==
    UNION {{[k \in 1..n |-> Matchup(f[k].mid, k, f[k].points, <<f[k].points>>)] :
               f \in [1..n -> [mid : {1, 2}, points : 0..MaxPoints]]} :
           n \in 0..MaxMatchups}

\* starters_points of a roster with two starters: missing, short or aligned
GenStarterPoints == UNION {[1..n -> 0..MaxPoints] : n \in {0, 1, 2}}

\* matchups responses for the scorer: the k-th element is roster k with two starters
ScorerInputs ==
    UNION {{[k \in 1..n |->
                [matchup_id |-> 1, roster_id |-> k, points |-> 0,
                 starters |-> <<PlayerOf(k), "p5">>, starters_points |-> f[k]]] :
               f \in [1..n -> GenStarterPoints]} :
           n \in 0..MaxRosters}

CalcYear == "2024"

InitCalc ==
    /\ players = TRUE
    /\ api = [year \in LeagueYears |->
                 [users |-> TRUE, rosters |-> TRUE,
                  weeks |-> [week \in Weeks |-> "unplayed"]]]
    /\ files = {}
    /\ mFile = <<>>
    /\ hFile = <<>>
    /\ sheets = [n \in TabNames |-> NoSheet]
    /\ pc = [p \in Procs |-> "idle"]
    /\ mc = [p \in Procs |-> McIdle]
    /\ hs = [p \in Procs |-> HsIdle]
    /\ obs = [p \in Procs |-> ObsIdle]
    /\ env = [runs |-> 0, changes |-> 0, changed |-> FALSE, marginDone |-> FALSE,
             overlapped |-> FALSE, killed |-> FALSE]
    /\ \/ \E input \in MarginInputs :
             calc = [NoCalc EXCEPT !.kind = "margins", !.input = input]
       \/ \E input \in ScorerInputs :
             calc = [NoCalc EXCEPT !.kind = "scorer", !.input = input]

\* one iteration of the week loop of process_league on the response: margins is
\* the list it collected, largest and smallest what it appended to the two lists
CalcMargins ==
    /\ calc.kind = "margins"
    /\ ~calc.done
    /\ LET resp == Response(TRUE, calc.input)
           r == margin_week(McIdle, CalcYear, 1, resp)
           scan == WeekMargins(calc.input, CalcYear, 1)
       IN  calc' = [calc EXCEPT
                  !.done = TRUE,
                  !.stop = r.stop,
                  !.margins = IF resp.body = <<>> THEN <<>> ELSE scan.margins,
                  !.result = [kind |-> "margins",
                              largest |-> IF r.margins /= <<>>
                                          THEN <<largest_margin(r.margins)>> ELSE <<>>,
                              smallest |-> IF r.margins /= <<>>
                                           THEN <<smallest_margin(r.margins)>> ELSE <<>>,
                              mark |-> r.mark]]
    /\ UNCHANGED <<api, players, files, mFile, hFile, sheets, pc, mc, hs, obs, env>>

\* process_week on the response, rosters, users and players having answered
CalcScorer ==
    /\ calc.kind = "scorer"
    /\ ~calc.done
    /\ calc' = [calc EXCEPT
                  !.done = TRUE,
                  !.result = process_week(Response(TRUE, calc.input), TRUE, TRUE, TRUE)]
    /\ UNCHANGED <<api, players, files, mFile, hFile, sheets, pc, mc, hs, obs, env>>

NextCalc == CalcMargins \/ CalcScorer

SpecCalc == InitCalc /\ [][NextCalc]_vars

\* the file object of a run after the removal of a ledger file: one open on
\* that file is left on a file that has no name any more
Unlinked(self, removed) ==
    IF removed /\ self.file = "open" THEN [self EXCEPT !.file = "unlinked"] ELSE self

\* a ledger file is removed, with or without lines, at any moment
LedgerLost(name) ==
    /\ ledger_exists(name)
    /\ files' = files \ {name}
    /\ mFile' = IF name = MARGIN_LOG THEN <<>> ELSE mFile
    /\ hFile' = IF name = SCORER_LOG THEN <<>> ELSE hFile
    /\ mc' = [p \in Procs |-> Unlinked(mc[p], name = MARGIN_LOG)]
    /\ hs' = [p \in Procs |-> Unlinked(hs[p], name = SCORER_LOG)]
    /\ UNCHANGED <<api, players, sheets, pc, obs, env, calc>>

\* a week of the current season is played
WeekPlayed == \E week \in Weeks : Upstream("2024", week, "played")

\* runs one at a time, each of which may be terminated at any point, with a
\* margin ledger file that may be removed at any moment, empty or not, also
\* between its opening and the writing of a line
NextLedger ==
    \/ AllIdle /\ Start("run1")
    \/ Step("run1")
    \/ Kill("run1")
    \/ LedgerLost(MARGIN_LOG)
    \/ WeekPlayed

SpecLedger == InitCrash /\ [][NextLedger]_vars

\* one season with its first week played, the other not yet played
InitOverlap ==
    /\ Init
    /\ \A week \in Weeks :
          /\ api["2024"].weeks[week] = IF week = 1 THEN "played" ELSE "unplayed"
          /\ api["2023"].weeks[week] = "unplayed"

\* the program is started again while a run of it is executing (explored for
\* runs that go to their end on unchanging upstream data)
StartOverlapping ==
    /\ pc["run1"] /= "idle"
    /\ ~env.killed
    /\ env.changes = 0
    /\ Start("run2")

\* a run is terminated (explored for runs one at a time)
Terminated == ~env.overlapped /\ Kill("run1")

\* the upstream data changes (explored for runs one at a time)
Changed == ~env.overlapped /\ Change

\* runs one after the other, each of which may be terminated at any point,
\* on upstream data that may change at any moment, or two runs at the same
\* time that go to their end
NextOverlap ==
    \/ AllIdle /\ Start("run1")
    \/ StartOverlapping
    \/ Step("run1")
    \/ Step("run2")
    \/ Terminated
    \/ Changed

SpecOverlap == InitOverlap /\ [][NextOverlap]_vars

----------------------------------------------------------------------------
(* SleeperSheets.process_season on generated seasons *)

\* weeks of a season in the season table (the code's range(1, 19))
NumSeasonWeeks == 7

SeasonWeeks == 1..NumSeasonWeeks

\* filter_rows keeps a row with at most this many zero weeks
ZeroLimit == 5

\* str(self.current_year)
StrYear(n) ==
    CASE n = 2023 -> "2023"
      [] n = 2024 -> "2024"
      [] n = 2025 -> "2025"

\* the calendar years datetime.now().year gives in the model
CurrentYears == {2024, 2025}

\* the users of a league; "u3" owns no roster
SeasonUsers ==
    << [user_id |-> "u1", display_name |-> "A"],
       [user_id |-> "u2", display_name |-> "B"],
       [user_id |-> "u3", display_name |-> "C"] >>

\* the rosters of a league; roster 3 has no owner (owner_id None, written ""),
\* roster 4 an owner who is not a user of the league
SeasonRosters ==
    << [roster_id |-> 1, owner_id |-> "u1"],
       [roster_id |-> 2, owner_id |-> "u2"],
       [roster_id |-> 3, owner_id |-> ""],
       [roster_id |-> 4, owner_id |-> "u9"] >>

SeasonMatchup(rid, pts) == [roster_id |-> rid, points |-> pts]

\* the responses of the matchups endpoint for a week of the season table
SeasonPayload(name) ==
    CASE name = "fail" -> Response(FALSE, <<>>)
      [] name = "empty" -> Response(TRUE, <<>>)
      [] name = "a" ->
            Response(TRUE, << SeasonMatchup(1, 3), SeasonMatchup(2, 0),
                              SeasonMatchup(3, 5), SeasonMatchup(4, 7) >>)
      [] name = "b" ->
            Response(TRUE, << SeasonMatchup(2, 2), SeasonMatchup(5, 4),
                              SeasonMatchup(2, 1) >>)

SeasonPayloadNames == {"fail", "empty", "a", "b"}

\* fetch_users / fetch_rosters / fetch_matchups: the JSON on 200, [] otherwise
fetch_list(resp) == IF resp.ok THEN resp.body ELSE <<>>

\* roster_to_user.get(roster_id): the owner of the last roster with that id,
\* None (written "") without one
RECURSIVE roster_to_user(_, _)
roster_to_user(rosters, roster_id) ==
    IF rosters = <<>> THEN ""
    ELSE LET last == rosters[Len(rosters)] IN
         IF last.roster_id = roster_id THEN last.owner_id
         ELSE roster_to_user(SubSeq(rosters, 1, Len(rosters) - 1), roster_id)

\* the loop over the matchups of a week for one user of user_data: whether
\* user_data[user_id] has the key f"Week {week}" and its value
RECURSIVE week_entry(_, _, _, _)
week_entry(matchups, rosters, user_id, entry) ==
    IF matchups = <<>> THEN entry
    ELSE week_entry(Tail(matchups), rosters, user_id,
             IF roster_to_user(rosters, Head(matchups).roster_id) = user_id
             THEN [has |-> TRUE, points |-> Head(matchups).points]
             ELSE entry)

NoEntry == [has |-> FALSE, points |-> 0]

\* data.get(f"Week {week}") with the default 1
week_points_default_one(entry) == IF entry.has THEN entry.points ELSE 1

\* data.get(f"Week {week}", 0)
week_points(entry) == IF entry.has THEN entry.points ELSE 0

\* total_points after the loop over the weeks
RECURSIVE total_points(_, _)
total_points(values, week) ==
    IF week > Len(values) THEN 0
    ELSE values[week] + total_points(values, week + 1)

\* the row built for one user
season_row(user, rosters, responses) ==
    LET values == [week \in SeasonWeeks |->
                      week_points(week_entry(fetch_list(responses[week]), rosters,
                                             user.user_id, NoEntry))]
    IN  [user_id |-> user.user_id,
         display_name |-> user.display_name,
         weeks |-> values,
         total |-> total_points(values, 1)]

\* the number of week columns of a row that are 0
zero_weeks(row) == Cardinality({week \in DOMAIN row.weeks : row.weeks[week] = 0})

\* filter_rows with the test < 5
filter_rows_below(rows) == SelectSeq(rows, LAMBDA row : zero_weeks(row) < ZeroLimit)

\* filter_rows: df[df[week_columns].eq(0).sum(axis=1) <= 5]
filter_rows(rows) == SelectSeq(rows, LAMBDA row : zero_weeks(row) <= ZeroLimit)

\* the filter applied whatever the year
is_past_season_always(year, current_year) == TRUE

\* year != str(self.current_year)
is_past_season(year, current_year) == year /= StrYear(current_year)

\* process_season: the rows before the filter and the rows of the DataFrame
\* returned
process_season(year, current_year, users_resp, rosters_resp, responses) ==
    LET users == fetch_list(users_resp)
        rosters == fetch_list(rosters_resp)
        rows == [i \in 1..Len(users) |-> season_row(users[i], rosters, responses)]
    IN  IF users = <<>> \/ rosters = <<>>
        THEN [rows |-> <<>>, df |-> <<>>]
        ELSE [rows |-> rows,
              df |-> IF is_past_season(year, current_year) THEN filter_rows(rows)
                     ELSE rows]

\* the seasons on which process_season is computed
SeasonInputs ==
    {[year |-> year, current_year |-> cy, users_ok |-> TRUE, rosters_ok |-> TRUE,
      weeks |-> weeks] :
        year \in LeagueYears, cy \in CurrentYears,
        weeks \in [SeasonWeeks -> SeasonPayloadNames]}
    \cup
    {[year |-> year, current_year |-> cy, users_ok |-> uo, rosters_ok |-> ro,
      weeks |-> [week \in SeasonWeeks |-> "a"]] :
        year \in LeagueYears, cy \in CurrentYears, uo \in BOOLEAN, ro \in BOOLEAN}

InitSeason ==
    /\ players = TRUE
    /\ api = [year \in LeagueYears |->
                 [users |-> TRUE, rosters |-> TRUE,
                  weeks |-> [week \in Weeks |-> "unplayed"]]]
    /\ files = {}
    /\ mFile = <<>>
    /\ hFile = <<>>
    /\ sheets = [n \in TabNames |-> NoSheet]
    /\ pc = [p \in Procs |-> "idle"]
    /\ mc = [p \in Procs |-> McIdle]
    /\ hs = [p \in Procs |-> HsIdle]
    /\ obs = [p \in Procs |-> ObsIdle]
    /\ env = [runs |-> 0, changes |-> 0, changed |-> FALSE, marginDone |-> FALSE,
             overlapped |-> FALSE, killed |-> FALSE]
    /\ \E input \in SeasonInputs :
          calc = [NoCalc EXCEPT !.kind = "season", !.input = input]

\* process_season on the generated season
CalcSeason ==
    /\ calc.kind = "season"
    /\ ~calc.done
    /\ LET in == calc.input
           r == process_season(in.year, in.current_year,
                               Response(in.users_ok, SeasonUsers),
                               Response(in.rosters_ok, SeasonRosters),
                               [week \in SeasonWeeks |-> SeasonPayload(in.weeks[week])])
       IN  calc' = [calc EXCEPT
                  !.done = TRUE,
                  !.result = [kind |-> "season", rows |-> r.rows, df |-> r.df]]
    /\ UNCHANGED <<api, players, files, mFile, hFile, sheets, pc, mc, hs, obs, env>>

NextSeason == CalcSeason

SpecSeason == InitSeason /\ [][NextSeason]_vars

----------------------------------------------------------------------------
(* The start of the program: the configuration, SleeperSheets.run() and     *)
(* MarginCalculator.__init__                                                *)

\* what is wrong with the configuration: nothing, the configuration file
\* cannot be read, a required key is missing, or the credential file named by
\* 'service_account_file' cannot be read
ConfigProblems ==
    {"none", "no_config_file", "no_spreadsheet_id", "no_service_account_file",
     "no_league_ids", "bad_credentials"}

\* the seasons the Sleeper API holds for a league in the start of the program
SeasonShape(name) ==
    CASE name = "active" ->
            [users_ok |-> TRUE, rosters_ok |-> TRUE,
             weeks |-> [week \in SeasonWeeks |-> "a"]]
      [] name = "dormant" ->
            [users_ok |-> TRUE, rosters_ok |-> TRUE,
             weeks |-> [week \in SeasonWeeks |-> "empty"]]
      [] name = "unreachable" ->
            [users_ok |-> FALSE, rosters_ok |-> TRUE,
             weeks |-> [week \in SeasonWeeks |-> "fail"]]

SeasonShapeNames == {"active", "dormant", "unreachable"}

\* the requests process_season sends: users, rosters and, when both answered
\* with data, one per week
season_requests(shape) ==
    IF shape.users_ok /\ shape.rosters_ok THEN 2 + NumSeasonWeeks ELSE 2

InitStartup ==
    /\ players = TRUE
    /\ api = [year \in LeagueYears |->
                 [users |-> TRUE, rosters |-> TRUE,
                  weeks |-> [week \in Weeks |-> "unplayed"]]]
    /\ files = {}
    /\ mFile = <<>>
    /\ hFile = <<>>
    /\ sheets = [n \in TabNames |-> NoSheet]
    /\ pc = [p \in Procs |-> "idle"]
    /\ mc = [p \in Procs |-> McIdle]
    /\ hs = [p \in Procs |-> HsIdle]
    /\ obs = [p \in Procs |-> ObsIdle]
    /\ env = [runs |-> 0, changes |-> 0, changed |-> FALSE, marginDone |-> FALSE,
             overlapped |-> FALSE, killed |-> FALSE]
    /\ \E problem \in ConfigProblems, cy \in CurrentYears,
          seasons \in [LeagueYears -> SeasonShapeNames] :
          calc = [kind |-> "startup", done |-> FALSE, pos |-> "load",
                  input |-> [problem |-> problem, current_year |-> cy,
                             seasons |-> seasons],
                  league |-> 1, requests |-> 0, df |-> <<>>, uploaded |-> {}]

\* the module body: json.load of the configuration file
SLoad ==
    /\ calc.kind = "startup"
    /\ calc.pos = "load"
    /\ calc' = [calc EXCEPT !.pos = IF calc.input.problem = "no_config_file"
                                    THEN "aborted" ELSE "s_init"]
    /\ UNCHANGED <<api, players, files, mFile, hFile, sheets, pc, mc, hs, obs, env>>

\* a required key of the configuration is missing: config[...] raises KeyError
missing_key(problem) ==
    problem \in {"no_spreadsheet_id", "no_service_account_file", "no_league_ids"}

\* SleeperSheets.__init__
SInit ==
    /\ calc.kind = "startup"
    /\ calc.pos = "s_init"
    /\ calc' = [calc EXCEPT !.pos = IF missing_key(calc.input.problem)
                                    THEN "aborted" ELSE "s_league"]
    /\ UNCHANGED <<api, players, files, mFile, hFile, sheets, pc, mc, hs, obs, env>>

\* SleeperSheets.run(): one iteration of the loop over league_ids, up to the
\* call of upload_to_google_sheets
SLeague ==
    /\ calc.kind = "startup"
    /\ calc.pos = "s_league"
    /\ LET i == calc.league IN
       IF i > Len(LeagueIds)
       THEN calc' = [calc EXCEPT !.pos = "m_init"]
       ELSE IF LeagueIds[i].league_id = ""
            THEN calc' = [calc EXCEPT !.league = i + 1]
            ELSE LET year == LeagueIds[i].year
                     shape == SeasonShape(calc.input.seasons[year])
                     r == process_season(year, calc.input.current_year,
                              Response(shape.users_ok, SeasonUsers),
                              Response(shape.rosters_ok, SeasonRosters),
                              [week \in SeasonWeeks |-> SeasonPayload(shape.weeks[week])])
                 IN  calc' = [calc EXCEPT
                         !.requests = @ + season_requests(shape),
                         !.df = r.df,
                         !.league = IF r.df = <<>> THEN i + 1 ELSE i,
                         !.pos = IF r.df = <<>> THEN "s_league" ELSE "s_upload"]
    /\ UNCHANGED <<api, players, files, mFile, hFile, sheets, pc, mc, hs, obs, env>>

\* the credential file cannot be read: from_service_account_file raises
credentials_fail(problem) == problem = "bad_credentials"

\* upload_to_google_sheets: the credentials are read, then the sheet is written
SUpload ==
    /\ calc.kind = "startup"
    /\ calc.pos = "s_upload"
    /\ calc' = IF credentials_fail(calc.input.problem)
               THEN [calc EXCEPT !.pos = "aborted"]
               ELSE [calc EXCEPT !.pos = "s_league",
                                 !.uploaded = @ \cup {LeagueIds[calc.league].year},
                                 !.league = @ + 1]
    /\ UNCHANGED <<api, players, files, mFile, hFile, sheets, pc, mc, hs, obs, env>>

\* MarginCalculator.__init__ up to authorize_google_sheets
SMarginInit ==
    /\ calc.kind = "startup"
    /\ calc.pos = "m_init"
    /\ calc' = [calc EXCEPT !.done = TRUE,
                            !.pos = IF credentials_fail(calc.input.problem)
                                    THEN "aborted" ELSE "m_run"]
    /\ UNCHANGED <<api, players, files, mFile, hFile, sheets, pc, mc, hs, obs, env>>

NextStartup == SLoad \/ SInit \/ SLeague \/ SUpload \/ SMarginInit

SpecStartup == InitStartup /\ [][NextStartup]_vars

----------------------------------------------------------------------------
(* Properties *)

Range(seq) == {seq[i] : i \in 1..Len(seq)}

\* the (year, week) of a worksheet row
RowKey(row) == <<row[1], row[2]>>

\* no two rows below the header carry the same (year, week)
NoDuplicateWeek(rows) ==
    \A i, j \in 2..Len(rows) : i < j => RowKey(rows[i]) /= RowKey(rows[j])

\* C1: across complete runs executed one after the other, 'Largest Margin',
\* 'Smallest Margin' and the high-scorer worksheet each hold at most one row
\* for any (year, week).
C1_OneRowPerWeek == \A n \in TabNames : NoDuplicateWeek(sheets[n].rows)

\* a second run has gone over weeks already published and has appended to
\* worksheets that held rows
C1_Witness ==
    /\ env.runs = 2
    /\ pc["run1"] = "h_done"
    /\ \A n \in TabNames :
          /\ Len(obs["run1"].before[n].rows) >= 2
          /\ Len(sheets[n].rows) > Len(obs["run1"].before[n].rows)

\* C2: a margin run that follows a complete margin run on unchanged upstream
\* data (no change since the run before was started), with both margin
\* worksheets existing when it starts, appends no row to 'Largest Margin' and
\* none to 'Smallest Margin'.
C2_SecondRunAppendsNothing ==
    \A p \in Procs :
        (/\ pc[p] /= "idle"
         /\ obs[p].repeat
         /\ ~env.changed
         /\ obs[p].before[LARGEST].exists
         /\ obs[p].before[SMALLEST].exists)
        => /\ obs[p].mAppended = 0
           /\ sheets[LARGEST].rows = obs[p].before[LARGEST].rows
           /\ sheets[SMALLEST].rows = obs[p].before[SMALLEST].rows

\* the repeated margin run is over: it skipped published weeks and fetched the others
C2_Witness ==
    /\ pc["run1"] = "m_done"
    /\ obs["run1"].repeat
    /\ ~env.changed
    /\ Len(obs["run1"].before[LARGEST].rows) >= 2
    /\ Len(obs["run1"].before[SMALLEST].rows) >= 2
    /\ obs["run1"].mFetched /= {}
    /\ mc["run1"].processed_weeks /= {}

\* C3 as stated: the week on which the margin run stops a league (a pair with
\* both sides at zero) is in the margin ledger.
C3_HaltWeekMarked ==
    \A p \in Procs : obs[p].mHalted \subseteq load_processed_weeks(mFile)

\* C3 amended: the week on which the margin run stops a league is not marked
\* processed by that run.
C3_HaltWeekNotMarked ==
    \A p \in Procs : obs[p].mHalted \cap obs[p].mMarked = {}

\* a margin run has stopped one league and marked a week of another
C3_Witness ==
    /\ pc["run1"] = "m_done"
    /\ obs["run1"].mHalted /= {}
    /\ obs["run1"].mMarked /= {}

\* some pairing of the response has exactly two sides, both at 0 points
HasZeroPair(resp) ==
    /\ resp.ok
    /\ \E i, j \in 1..Len(resp.body) :
          /\ i < j
          /\ resp.body[i].matchup_id = resp.body[j].matchup_id
          /\ \A k \in 1..Len(resp.body) :
                resp.body[k].matchup_id = resp.body[i].matchup_id => k \in {i, j}
          /\ resp.body[i].points = 0
          /\ resp.body[j].points = 0

\* the responses a run received for the matchups of a week: margin run, scorer run
MarginGot(p, year, week) ==
    {name \in PayloadNames : <<year, week, name>> \in obs[p].mGot}

ScorerGot(p, year, week) ==
    {name \in PayloadNames : <<year, week, name>> \in obs[p].hGot}

\* the entries of a run's list for a year, from a week on
EntriesFrom(entries, year, week) ==
    {i \in 1..Len(entries) :
        entries[i].Year = IntYear(year) /\ entries[i].Week >= week}

\* C4: if a valid pair of a week the margin run examines has both sides at
\* zero, the run produces no largest and no smallest record for that week (not
\* even from its other pairs), and fetches no later week of that league and
\* produces no record for one.
C4_MarginStop ==
    \A p \in Procs : \A year \in LeagueYears : \A week \in Weeks :
        (\E name \in MarginGot(p, year, week) : HasZeroPair(WeekPayload(name)))
        => /\ EntriesFrom(mc[p].largest_margins, year, week) = {}
           /\ EntriesFrom(mc[p].smallest_margins, year, week) = {}
           /\ \A later \in Weeks :
                 later > week => WeekKey(year, later) \notin obs[p].mFetched

\* the run stopped a league on a week whose first pair had scored, the next week
\* of that league being played, and went on to produce records for another league
C4_Witness ==
    /\ pc["run1"] = "m_done"
    /\ \E year \in LeagueYears :
          /\ "partial" \in MarginGot("run1", year, 1)
          /\ api[year].weeks[2] = "played"
          /\ env.changes = 0
    /\ mc["run1"].largest_margins /= <<>>

\* C5 as stated: if some pairing of a week the scorer run examines has both
\* sides at 0 points, the run appends no row for that week or a later week of
\* that league.
C5_ZeroPairNoScorer ==
    \A p \in Procs : \A year \in LeagueYears : \A week \in Weeks :
        (\E name \in ScorerGot(p, year, week) : HasZeroPair(WeekPayload(name)))
        => \A later \in Weeks :
              later >= week => WeekKey(year, later) \notin Range(obs[p].hAppended)

\* no starter score of the response is positive
NoPositiveStarter(resp) ==
    \A i \in 1..Len(resp.body) :
        \A idx \in 1..Len(resp.body[i].starters_points) :
            resp.body[i].starters_points[idx] <= 0

\* some starter position of the response has a positive score
HasPositiveStarter(resp) ==
    \E i \in 1..Len(resp.body) :
        \E idx \in 1..Len(resp.body[i].starters) :
            /\ idx <= Len(resp.body[i].starters_points)
            /\ resp.body[i].starters_points[idx] > 0

\* the number of times a week occurs in a list of weeks
Occurrences(keys, key) == Cardinality({i \in 1..Len(keys) : keys[i] = key})

\* every matchup of the response has a score for each of its starters
EveryStarterScored(resp) ==
    \A i \in 1..Len(resp.body) :
        Len(resp.body[i].starters_points) >= Len(resp.body[i].starters)

\* the scorer run is past the requests of the week and the append of its row
PastAppend(p, key) ==
    ~(/\ pc[p] \in {"h_rosters", "h_users", "h_players", "h_append"}
      /\ WeekKey(LeagueIds[hs[p].league].year, hs[p].week) = key)

\* C5 amended: if no starter of a week the scorer run examines has a positive
\* score, the run appends no row for that week or a later week of that league;
\* and a pairing with both sides at 0 does not by itself stop the run: when
\* the four requests of the week are answered, every matchup has a score for
\* each of its starters and some starter has a positive score, the run appends
\* the row of the week, whether or not a pairing of the week has both sides at 0.
C5_NoPositiveNoScorer ==
    \A p \in Procs : \A year \in LeagueYears : \A week \in Weeks :
        LET key == WeekKey(year, week) IN
        /\ (\E name \in ScorerGot(p, year, week) : NoPositiveStarter(WeekPayload(name)))
           => \A later \in Weeks :
                 later >= week => WeekKey(year, later) \notin Range(obs[p].hAppended)
        /\ (/\ \E name \in ScorerGot(p, year, week) :
                   /\ WeekPayload(name).ok
                   /\ EveryStarterScored(WeekPayload(name))
                   /\ HasPositiveStarter(WeekPayload(name))
            /\ key \notin obs[p].hFailed
            /\ PastAppend(p, key))
           => Occurrences(obs[p].hAppended, key) = 1

\* the run appended the row of a week that has a pairing with both sides at 0
\* and a starter with a positive score, and stopped the league on the next
\* week, which has no positive starter score
C5_Witness ==
    /\ pc["run1"] = "h_done"
    /\ \E year \in LeagueYears :
          /\ \E name \in ScorerGot("run1", year, 1) :
                /\ HasZeroPair(WeekPayload(name))
                /\ HasPositiveStarter(WeekPayload(name))
          /\ WeekKey(year, 1) \in Range(obs["run1"].hAppended)
          /\ \E name \in ScorerGot("run1", year, 2) : NoPositiveStarter(WeekPayload(name))
          /\ WeekKey(year, 2) \notin Range(obs["run1"].hAppended)

\* the scorer run is between process_week and the end of the iteration of a week
InIteration(p, key) ==
    /\ pc[p] \in {"h_rosters", "h_users", "h_players", "h_append", "h_mark", "h_write"}
    /\ WeekKey(LeagueIds[hs[p].league].year, hs[p].week) = key

\* C6: for each week not in the high-scorer ledger that the run examines: if the
\* week's maximum starter score is <= 0, the run appends nothing for it, does not
\* mark it and examines no later week of that league; otherwise it appends
\* exactly one row and then marks exactly that (year, week).
C6_ScorerProtocol ==
    \A p \in Procs : \A year \in LeagueYears : \A week \in Weeks :
        LET key == WeekKey(year, week) IN
        \A name \in ScorerGot(p, year, week) :
            IF ~HasPositiveStarter(WeekPayload(name))
            THEN /\ key \notin Range(obs[p].hAppended)
                 /\ key \notin Range(obs[p].hMarked)
                 /\ \A later \in Weeks :
                       later > week => WeekKey(year, later) \notin obs[p].hExamined
            ELSE /\ Occurrences(obs[p].hMarked, key) <= Occurrences(obs[p].hAppended, key)
                 /\ Occurrences(obs[p].hAppended, key) <= 1
                 /\ ~InIteration(p, key) =>
                       /\ Occurrences(obs[p].hAppended, key) = 1
                       /\ Occurrences(obs[p].hMarked, key) = 1

MarginTabs == {LARGEST, SMALLEST}

\* the records a run has computed for a margin worksheet
Computed(p, n) ==
    IF n = LARGEST THEN mc[p].largest_margins ELSE mc[p].smallest_margins

\* the run began with a margin worksheet missing
FullMode(p) == \E n \in MarginTabs : ~obs[p].before[n].exists

\* the worksheet holds the header and then the rows of the records, in order
HeaderAndRecords(rows, entries) ==
    /\ Len(rows) = 1 + Len(entries)
    /\ rows[1] = MarginHeaders
    /\ \A i \in 1..Len(entries) : rows[i + 1] = EntryRow(entries[i])

\* every week of every league was fetched, whatever the ledger held, up to the
\* week on which the league was stopped
AllWeeksFetched(p) ==
    \A year \in LeagueYears : \A week \in Weeks :
        (/\ year \in obs[p].mLeagues
         /\ \A earlier \in Weeks :
               earlier < week => WeekKey(year, earlier) \notin obs[p].mHalted)
        => WeekKey(year, week) \in obs[p].mFetched

\* the (year, week) of the rows below the header
RowKeys(rows) == {RowKey(rows[i]) : i \in 2..Len(rows)}

\* the rows of the records whose (year, week) is not among keys, in order
RowsNotIn(entries, keys) ==
    AllRows(SelectSeq(entries, LAMBDA e : <<e.Year, e.Week>> \notin keys))

\* the incremental upload of a worksheet appended to what it read exactly the
\* records whose (year, week) was absent, and what it read was the worksheet
\* as the run found it
AppendedOnlyNew(p, n) ==
    /\ sheets[n].rows =
          obs[p].seen[n] \o RowsNotIn(Computed(p, n), RowKeys(obs[p].seen[n]))
    /\ obs[p].before[n].rows /= <<>> => obs[p].seen[n] = obs[p].before[n].rows

\* C7 as stated: a margin run that began with a margin worksheet missing fetches
\* every week whatever the ledger holds, and leaves in each margin worksheet
\* exactly the header and the records it computed; a run that began with both
\* appends a record iff its (year, week) is absent from the worksheet and removes
\* or changes no row.
C7_PublishMode ==
    \A p \in Procs :
        pc[p] \in AfterMargin =>
            IF FullMode(p)
            THEN /\ AllWeeksFetched(p)
                 /\ \A n \in MarginTabs :
                       sheets[n].exists => HeaderAndRecords(sheets[n].rows, Computed(p, n))
            ELSE \A n \in obs[p].uploaded : AppendedOnlyNew(p, n)

\* C7 amended: as C7, the full rewrite being that of a run that computed at
\* least one record; a run that computed none leaves both margin worksheets as
\* it found them.
C7_PublishModeNonEmpty ==
    \A p \in Procs :
        pc[p] \in AfterMargin =>
            IF FullMode(p)
            THEN /\ AllWeeksFetched(p)
                 /\ \A n \in MarginTabs :
                       IF Computed(p, n) /= <<>>
                       THEN /\ sheets[n].exists
                            /\ HeaderAndRecords(sheets[n].rows, Computed(p, n))
                       ELSE sheets[n] = obs[p].before[n]
            ELSE \A n \in MarginTabs :
                    IF n \in obs[p].uploaded
                    THEN AppendedOnlyNew(p, n)
                    ELSE sheets[n] = obs[p].before[n]

\* a full rewrite by a run that found weeks in the ledger
C7_WitnessFull ==
    /\ pc["run1"] = "m_done"
    /\ FullMode("run1")
    /\ mc["run1"].largest_margins /= <<>>
    /\ \E key \in obs["run1"].mFetched : Occurrences(mFile, key) = 2

\* an incremental upload that appended records below the rows of an earlier run
C7_WitnessIncremental ==
    /\ pc["run1"] = "m_done"
    /\ ~FullMode("run1")
    /\ obs["run1"].uploaded = MarginTabs
    /\ \A n \in MarginTabs :
          /\ Len(obs["run1"].before[n].rows) >= 2
          /\ Len(sheets[n].rows) > Len(obs["run1"].before[n].rows)

----------------------------------------------------------------------------
(* The records a week's response should give *)

\* the positions of a response that carry a pairing identifier
GroupOf(input, id) == {k \in 1..Len(input) : input[k].matchup_id = id}

PairingIds(input) == {input[k].matchup_id : k \in 1..Len(input)}

\* the pairing identifiers carried by exactly two matchups
ValidPairs(input) == {id \in PairingIds(input) : Cardinality(GroupOf(input, id)) = 2}

MinOf(S) == CHOOSE x \in S : \A y \in S : x <= y

MaxOf(S) == CHOOSE x \in S : \A y \in S : x >= y

\* the position at which a pairing is first met in the response
FirstMet(input, id) == MinOf(GroupOf(input, id))

\* the record of a pair: first-listed side with p1, second with p2
ExpectedRecord(input, id) ==
    LET a == input[MinOf(GroupOf(input, id))]
        b == input[MaxOf(GroupOf(input, id))]
        p1 == a.points
        p2 == b.points
        name1 == UserName(RosterOwner(a.roster_id))
        name2 == UserName(RosterOwner(b.roster_id))
    IN  [Year |-> 2024,
         Week |-> 1,
         Winner |-> IF p1 >= p2 THEN name1 ELSE name2,
         Loser |-> IF p1 >= p2 THEN name2 ELSE name1,
         WinnerPoints |-> IF p1 >= p2 THEN p1 ELSE p2,
         LoserPoints |-> IF p1 >= p2 THEN p2 ELSE p1,
         Margin |-> IF p1 >= p2 THEN p1 - p2 ELSE p2 - p1]

\* a pair with both sides at zero
ZeroPair(input, id) ==
    /\ input[MinOf(GroupOf(input, id))].points = 0
    /\ input[MaxOf(GroupOf(input, id))].points = 0

\* the valid pairs met before any pair with both sides at zero
PairsBeforeStop(input) ==
    {id \in ValidPairs(input) :
        \A z \in ValidPairs(input) :
            ZeroPair(input, z) => FirstMet(input, id) < FirstMet(input, z)}

\* the place of a pair among the pairs of S, in the order they are met
Rank(input, S, id) ==
    Cardinality({x \in S : FirstMet(input, x) <= FirstMet(input, id)})

\* the week's list of margins holds the records of the pairs of S, in the order
\* they are met, and nothing else
MarginsAre(input, S) ==
    /\ Len(calc.margins) = Cardinality(S)
    /\ \A id \in S : calc.margins[Rank(input, S, id)] = ExpectedRecord(input, id)

\* C8 as stated: of the groups of matchups of a week that share a pairing
\* identifier, a group whose size is not 2 yields no record and every group of
\* exactly two yields the record whose winner is the first side when p1 >= p2
\* and the second otherwise, with winner points max(p1, p2), loser points
\* min(p1, p2) and margin |p1 - p2|.
C8_PairRecord ==
    (calc.done /\ calc.kind = "margins") => MarginsAre(calc.input, ValidPairs(calc.input))

\* C8 amended: the groups of exactly two that are met before any pair with both
\* sides at zero yield that record, in the order they are met; a group whose
\* size is not 2, the first pair with both sides at zero and every pair met
\* after it yield none.
C8_PairRecordBeforeStop ==
    (calc.done /\ calc.kind = "margins") =>
        MarginsAre(calc.input, PairsBeforeStop(calc.input))

\* a week with a tied pair above zero, a pair won by its second side, and both
\* records in the list
C8_Witness ==
    /\ calc.done
    /\ calc.kind = "margins"
    /\ Len(calc.margins) = 2
    /\ \E a, b \in ValidPairs(calc.input) :
          LET a1 == calc.input[MinOf(GroupOf(calc.input, a))]
              a2 == calc.input[MaxOf(GroupOf(calc.input, a))]
              b1 == calc.input[MinOf(GroupOf(calc.input, b))]
              b2 == calc.input[MaxOf(GroupOf(calc.input, b))]
          IN  /\ a1.points = a2.points
              /\ a1.points > 0
              /\ b1.points < b2.points
              /\ \E i \in 1..2 : calc.margins[i].Winner = UserName(RosterOwner(a1.roster_id))
              /\ \E i \in 1..2 : calc.margins[i].Winner = UserName(RosterOwner(b2.roster_id))

\* the pair met first among the pairs of S
FirstAmong(input, S) ==
    CHOOSE id \in S : \A x \in S : FirstMet(input, id) <= FirstMet(input, x)

\* the valid pairs of largest margin, and of smallest
LargestPairs(input) ==
    {id \in ValidPairs(input) :
        \A x \in ValidPairs(input) :
            ExpectedRecord(input, id).Margin >= ExpectedRecord(input, x).Margin}

SmallestPairs(input) ==
    {id \in ValidPairs(input) :
        \A x \in ValidPairs(input) :
            ExpectedRecord(input, id).Margin <= ExpectedRecord(input, x).Margin}

\* C9: a week with at least one valid pair and no pair with both sides at zero
\* gives exactly one largest-margin record and exactly one smallest-margin
\* record: the record of the first-met pair among those of largest margin, and
\* of the first-met pair among those of smallest margin.
C9_LargestSmallest ==
    LET input == calc.input IN
    (/\ calc.done
     /\ calc.kind = "margins"
     /\ ValidPairs(input) /= {}
     /\ \A id \in ValidPairs(input) : ~ZeroPair(input, id)) =>
        /\ calc.result.largest =
              <<ExpectedRecord(input, FirstAmong(input, LargestPairs(input)))>>
        /\ calc.result.smallest =
              <<ExpectedRecord(input, FirstAmong(input, SmallestPairs(input)))>>

\* two pairs of equal margin and different records: the first is both the
\* largest and the smallest
C9_Witness ==
    /\ calc.done
    /\ calc.kind = "margins"
    /\ Len(calc.margins) = 2
    /\ calc.margins[1].Margin = calc.margins[2].Margin
    /\ calc.margins[1] /= calc.margins[2]
    /\ calc.result.largest = <<calc.margins[1]>>
    /\ calc.result.smallest = <<calc.margins[1]>>

\* a week with one pair only: largest and smallest are the same record
C9_WitnessSinglePair ==
    /\ calc.done
    /\ calc.kind = "margins"
    /\ Cardinality(ValidPairs(calc.input)) = 1
    /\ Len(calc.result.largest) = 1
    /\ calc.result.largest = calc.result.smallest

\* the starter positions of a response that have a score
ScoredPositions(input) ==
    {pos \in (1..Len(input)) \X (1..2) :
        /\ pos[2] <= Len(input[pos[1]].starters)
        /\ pos[2] <= Len(input[pos[1]].starters_points)}

ScoreAt(input, pos) == input[pos[1]].starters_points[pos[2]]

\* the largest starter score of the week
WeekMax(input) == MaxOf({ScoreAt(input, pos) : pos \in ScoredPositions(input)})

\* the first-met starter position with the largest score
FirstMax(input) ==
    CHOOSE pos \in ScoredPositions(input) :
        /\ ScoreAt(input, pos) = WeekMax(input)
        /\ \A q \in ScoredPositions(input) :
              ScoreAt(input, q) = WeekMax(input) =>
                  \/ pos[1] < q[1]
                  \/ (pos[1] = q[1] /\ pos[2] <= q[2])

\* C10: when process_week returns a scorer for a week (the row the run then
\* appends), its points are the largest starter score over every starter
\* position of every matchup of the week, and its player and owner are those of
\* the first-met starter with that score.
C10_WeekMaximum ==
    LET input == calc.input IN
    (calc.done /\ calc.kind = "scorer" /\ calc.result.kind = "scorer") =>
        /\ calc.result.scorer.points = WeekMax(input)
        /\ calc.result.scorer.player_id =
              input[FirstMax(input)[1]].starters[FirstMax(input)[2]]
        /\ calc.result.scorer.user_id = RosterOwner(input[FirstMax(input)[1]].roster_id)

----------------------------------------------------------------------------
(* The season table *)

\* the week returned matchup data in which some matchup resolves to the user
ResolvesTo(input, week, user_id) ==
    LET resp == SeasonPayload(input.weeks[week]) IN
    /\ resp.ok
    /\ \E i \in 1..Len(resp.body) : \E k \in 1..Len(SeasonRosters) :
          /\ SeasonRosters[k].roster_id = resp.body[i].roster_id
          /\ SeasonRosters[k].owner_id = user_id

\* the sum of the first n values
RECURSIVE SumTo(_, _)
SumTo(values, n) == IF n = 0 THEN 0 ELSE SumTo(values, n - 1) + values[n]

\* C11: every row of the season table has all the week columns; a week for
\* which no matchup data came back, or in which no matchup resolves to the
\* row's user, is 0; and Season Total is the sum of the weekly values.
C11_SeasonRow ==
    (calc.done /\ calc.kind = "season") =>
        \A i \in 1..Len(calc.result.df) :
            LET row == calc.result.df[i] IN
            /\ DOMAIN row.weeks = SeasonWeeks
            /\ \A week \in SeasonWeeks :
                  ~ResolvesTo(calc.input, week, row.user_id) => row.weeks[week] = 0
            /\ row.total = SumTo(row.weeks, NumSeasonWeeks)

\* a row with a week whose request failed, a week that came back empty, a week
\* with data but without a matchup of the user, and points in other weeks
C11_Witness ==
    /\ calc.done
    /\ calc.kind = "season"
    /\ \E i \in 1..Len(calc.result.df) :
          LET row == calc.result.df[i] IN
          /\ row.total > 3
          /\ \E w1, w2, w3 \in SeasonWeeks :
                /\ calc.input.weeks[w1] = "fail"
                /\ calc.input.weeks[w2] = "empty"
                /\ SeasonPayload(calc.input.weeks[w3]).body /= <<>>
                /\ ~ResolvesTo(calc.input, w3, row.user_id)
                /\ row.weeks[w1] = 0 /\ row.weeks[w2] = 0 /\ row.weeks[w3] = 0

\* the number of zero weeks of a row
ZeroCount(row) == Cardinality({week \in SeasonWeeks : row.weeks[week] = 0})

\* the row is in the table returned
Kept(row) == \E j \in 1..Len(calc.result.df) : calc.result.df[j] = row

\* C12: of the rows built for a season of another year than the current one,
\* exactly those with at most 5 zero weeks are kept; of a season of the current
\* year every row is kept.
C12_InactivityFilter ==
    (calc.done /\ calc.kind = "season") =>
        /\ \A j \in 1..Len(calc.result.df) :
              \E i \in 1..Len(calc.result.rows) : calc.result.rows[i] = calc.result.df[j]
        /\ \A i \in 1..Len(calc.result.rows) :
              LET row == calc.result.rows[i] IN
              Kept(row) <=> (\/ IntYear(calc.input.year) = calc.input.current_year
                             \/ ZeroCount(row) <= 5)

\* a past season with a row of exactly 5 zero weeks kept and a row of exactly 6
\* dropped
C12_Witness ==
    /\ calc.done
    /\ calc.kind = "season"
    /\ IntYear(calc.input.year) /= calc.input.current_year
    /\ \E i, j \in 1..Len(calc.result.rows) :
          /\ ZeroCount(calc.result.rows[i]) = 5
          /\ Kept(calc.result.rows[i])
          /\ ZeroCount(calc.result.rows[j]) = 6
          /\ ~Kept(calc.result.rows[j])

\* a season of the current year with a row of zero weeks only, kept
C12_WitnessCurrent ==
    /\ calc.done
    /\ calc.kind = "season"
    /\ IntYear(calc.input.year) = calc.input.current_year
    /\ \E i \in 1..Len(calc.result.rows) :
          /\ ZeroCount(calc.result.rows[i]) = NumSeasonWeeks
          /\ Kept(calc.result.rows[i])

----------------------------------------------------------------------------
(* Failed requests and the ledgers *)

\* the week at which the scorer run stands
ScorerAt(p) == WeekKey(LeagueIds[hs[p].league].year, hs[p].week)

\* C13: a week whose matchups request fails (the league's rosters and users
\* answering) does not end the run and does not stop its league, in the margin
\* run and in the scorer run.
C13_FetchFailureNotFatal ==
    \A p \in Procs : \A year \in LeagueYears : \A week \in Weeks :
        LET key == WeekKey(year, week) IN
        /\ (\E name \in MarginGot(p, year, week) : ~WeekPayload(name).ok) =>
              key \notin obs[p].mHalted
        /\ (\E name \in ScorerGot(p, year, week) : ~WeekPayload(name).ok) =>
              /\ key \notin obs[p].hHalted
              /\ ~(pc[p] = "crashed" /\ ScorerAt(p) = key)

\* the positions of a run at which the margin ledger is loaded, and the scorer
\* ledger
MarginLoaded == {"m_exists", "m_exists2", "m_league", "m_users", "m_rosters", "m_week",
                 "m_mark", "m_write", "m_publish", "m_publish2"} \cup
                (AfterMargin \cup {"u_open", "u_add", "u_headers", "u_insert", "u_clear",
                                   "u_header_row", "u_rows", "u_read", "u_append"})

ScorerLoaded == {"h_year", "h_week", "h_rosters", "h_users", "h_players", "h_append",
                 "h_mark", "h_write", "h_done", "crashed"}

\* the file is the old one with lines added at its end
Extends(new, old) ==
    /\ Len(new) >= Len(old)
    /\ SubSeq(new, 1, Len(old)) = old

\* the week the margin run is marking, and the scorer run
MarginAt(p) == WeekKey(LeagueIds[mc[p].league].year, mc[p].week)
ScorerMarking(p) == WeekKey(LeagueIds[hs[p].league].year, hs[p].week)

\* C14: no step removes a ledger file or a line of it, a step only adds lines
\* at the end; the step that ends save_processed_week adds the line of the
\* week, also when the file has it, leaves the week processed for the run,
\* and leaves the set of the run as it is when the file had the week; a run
\* that has loaded a ledger holds exactly the keys of the file, those of
\* earlier runs included, however many lines the file has for a key; and a
\* week a run has marked is in the file.
C14_LedgerMonotonic ==
    /\ [][/\ files \subseteq files'
          /\ Extends(mFile', mFile)
          /\ Extends(hFile', hFile)
          /\ Range(mFile) \subseteq Range(mFile')
          /\ Range(hFile) \subseteq Range(hFile')
          /\ \A p \in Procs :
                /\ (pc[p] = "m_write" /\ pc'[p] \notin {"m_write", "idle"}) =>
                      /\ mFile' = Append(mFile, MarginAt(p))
                      /\ is_week_processed(mc'[p].processed_weeks,
                                           MarginAt(p)[1], MarginAt(p)[2])
                      /\ MarginAt(p) \in Range(mFile) =>
                            mc'[p].processed_weeks = mc[p].processed_weeks
                /\ (pc[p] = "h_write" /\ pc'[p] \notin {"h_write", "idle"}) =>
                      /\ hFile' = Append(hFile, ScorerMarking(p))
                      /\ is_week_processed(hs'[p].processed_weeks,
                                           ScorerMarking(p)[1], ScorerMarking(p)[2])]_vars
    /\ [](\A p \in Procs :
            /\ pc[p] \in MarginLoaded =>
                  /\ \A key \in Range(mFile) :
                        is_week_processed(mc[p].processed_weeks, key[1], key[2])
                  /\ mc[p].processed_weeks \subseteq Range(mFile)
                  /\ obs[p].mMarked \subseteq Range(mFile)
            /\ pc[p] \in ScorerLoaded =>
                  /\ \A key \in Range(hFile) :
                        is_week_processed(hs[p].processed_weeks, key[1], key[2])
                  /\ hs[p].processed_weeks \subseteq Range(hFile)
                  /\ Range(obs[p].hMarked) \subseteq Range(hFile))

\* a later run that rewrites in full has marked a week the file already had,
\* and its scorer has loaded its ledger and marked a week
C14_Witness ==
    /\ env.runs = 2
    /\ LedgerFiles \subseteq files
    /\ pc["run1"] \in ScorerLoaded
    /\ \E key \in obs["run1"].mMarked : Occurrences(mFile, key) = 2
    /\ Cardinality(Range(mFile)) >= 2
    /\ obs["run1"].hMarked /= <<>>

----------------------------------------------------------------------------
(* Configuration errors *)

\* C15: when a configuration error (a missing required key, an unreadable
\* configuration or credential file) ends the program, no request has been
\* sent to the remote API.
C15_AbortBeforeRemoteCalls ==
    (calc.kind = "startup" /\ calc.pos = "aborted") => calc.requests = 0

----------------------------------------------------------------------------
(* Runs that follow a terminated run *)

\* the run is the second of the behaviour, the first did not finish its margin
\* run, and the upstream data has not changed
ResumesMargin(p) ==
    /\ env.runs = 2
    /\ env.changes = 0
    /\ ~obs[p].repeat
    /\ pc[p] \in AfterMargin

\* the worksheet holds a row for the week of a ledger key
HasRow(n, key) ==
    /\ sheets[n].exists
    /\ <<IntYear(key[1]), key[2]>> \in RowKeys(sheets[n].rows)

\* C16: after the margin run of a complete run that follows a terminated run,
\* on unchanged upstream data, every (year, week) of the margin ledger has a
\* row in 'Largest Margin' and a row in 'Smallest Margin'.
C16_ResumeSafe ==
    \A p \in Procs :
        ResumesMargin(p) =>
            \A key \in Range(mFile) : \A n \in MarginTabs : HasRow(n, key)

\* the number of rows a worksheet holds for the week of a ledger key
RowCount(rows, key) ==
    Cardinality({i \in 2..Len(rows) : RowKey(rows[i]) = <<IntYear(key[1]), key[2]>>})

\* when the run began, the scorer worksheet held a row for the week and the
\* scorer ledger did not hold the week: the run before was terminated between
\* append_row and save_processed_week
AppendedUnmarked(p, key) ==
    /\ obs[p].before[SHEET_NAME].exists
    /\ RowCount(obs[p].before[SHEET_NAME].rows, key) = 1
    /\ key \notin Range(hFile) \/ key \in Range(obs[p].hMarked)

\* C17 as stated: the run that follows a scorer run terminated after the row of
\* a week was appended and before the week was marked processes that week
\* again and appends a second row for it.
C17_DoubleAppendNextRun ==
    \A p \in Procs : \A year \in LeagueYears : \A week \in Weeks :
        LET key == WeekKey(year, week) IN
        (/\ env.runs = 2
         /\ pc[p] = "h_done"
         /\ AppendedUnmarked(p, key)) =>
            /\ key \in obs[p].hExamined
            /\ Occurrences(obs[p].hAppended, key) = 1
            /\ RowCount(sheets[SHEET_NAME].rows, key) = 2

\* C17 amended: a complete run that follows, on unchanged upstream data, a
\* scorer run terminated after the row of a week was appended and before the
\* week was marked, processes that week again and appends a second row for
\* it; and when the run that follows examines the week and the response it
\* gets has no positive starter score, or a request of that week fails, it
\* appends no second row for that week.
C17_DoubleAppendAfterCrash ==
    \A p \in Procs : \A year \in LeagueYears : \A week \in Weeks :
        LET key == WeekKey(year, week) IN
        (env.runs = 2 /\ AppendedUnmarked(p, key)) =>
            /\ (env.changes = 0 /\ pc[p] = "h_done") =>
                  /\ key \in obs[p].hExamined
                  /\ Occurrences(obs[p].hAppended, key) = 1
                  /\ RowCount(sheets[SHEET_NAME].rows, key) = 2
            /\ (\/ \E name \in ScorerGot(p, year, week) :
                      ~WeekPayload(name).ok \/ NoPositiveStarter(WeekPayload(name))
                \/ key \in obs[p].hFailed) =>
                  /\ key \notin Range(obs[p].hAppended)
                  /\ RowCount(sheets[SHEET_NAME].rows, key) = 1

\* the second run has completed after such a termination
C17_Witness ==
    /\ env.runs = 2
    /\ env.changes = 0
    /\ pc["run1"] = "h_done"
    /\ \E year \in LeagueYears : \E week \in Weeks :
          /\ AppendedUnmarked("run1", WeekKey(year, week))
          /\ RowCount(sheets[SHEET_NAME].rows, WeekKey(year, week)) = 2

\* the run that follows such a termination examined the week on changed data
\* without a positive starter score and left the worksheet with its one row
C17_WitnessChanged ==
    /\ env.runs = 2
    /\ pc["run1"] = "h_done"
    /\ \E year \in LeagueYears : \E week \in Weeks :
          /\ AppendedUnmarked("run1", WeekKey(year, week))
          /\ \E name \in ScorerGot("run1", year, week) :
                NoPositiveStarter(WeekPayload(name))
          /\ RowCount(sheets[SHEET_NAME].rows, WeekKey(year, week)) = 1

\* C20: in every state, runs being terminated at any point, every (year, week)
\* of the scorer ledger has a row in the scorer worksheet, and the weeks of a
\* year in the ledger are the weeks 1..k for some k.
C20_LedgerBehindSheet ==
    /\ \A key \in Range(hFile) : HasRow(SHEET_NAME, key)
    /\ \A year \in LeagueYears : \A week \in Weeks :
          WeekKey(year, week) \in Range(hFile) =>
              \A earlier \in 1..week : WeekKey(year, earlier) \in Range(hFile)

\* a run terminated between append_row and save_processed_week, with earlier
\* weeks in the ledger
C20_Witness ==
    /\ pc["run1"] = "idle"
    /\ hFile /= <<>>
    /\ \E year \in LeagueYears :
          /\ WeekKey(year, 1) \in Range(hFile)
          /\ WeekKey(year, 2) \notin Range(hFile)
          /\ HasRow(SHEET_NAME, WeekKey(year, 2))

----------------------------------------------------------------------------
(* The cross-check of the margin worksheets *)

\* C18: runs being executed one at a time, each terminated at any point, and
\* the margin ledger holding anything or nothing, neither margin worksheet ever
\* holds two rows with the same (year, week).
C18_NoDuplicateMarginRow ==
    \A n \in MarginTabs : NoDuplicateWeek(sheets[n].rows)

\* a run that found both worksheets and no ledger has derived again a week
\* whose row a worksheet held, and has uploaded to both worksheets
C18_Witness ==
    /\ pc["run1"] = "m_done"
    /\ ~FullMode("run1")
    /\ obs["run1"].uploaded = MarginTabs
    /\ \E key \in obs["run1"].mFetched :
          /\ <<IntYear(key[1]), key[2]>> \in RowKeys(obs["run1"].before[LARGEST].rows)
          /\ key \in obs["run1"].mMarked
          /\ RowCount(sheets[LARGEST].rows, key) = 1

----------------------------------------------------------------------------
(* Two runs at the same time *)

\* both runs found the week unprocessed and both appended a row for it
BothAppended(key) ==
    /\ key \in obs["run1"].hExamined
    /\ key \in obs["run2"].hExamined
    /\ key \in Range(obs["run1"].hAppended)
    /\ key \in Range(obs["run2"].hAppended)

\* C19 as stated: as long as no run was started while another was executing,
\* no worksheet holds two rows for the same (year, week), that is, no two runs
\* have both found a week unprocessed and both appended a row for it.
C19_OneAtATimeNoDoubleAppend ==
    ~env.overlapped =>
        \A n \in TabNames : NoDuplicateWeek(sheets[n].rows)

\* C19 amended: as long as no run was started while another was executing and
\* no run was terminated, no worksheet holds two rows for the same
\* (year, week); with two runs at the same time a state is reached where both
\* appended the row of a week (C19_Witness).
C19_SingleRunNoDoubleAppend ==
    (~env.overlapped /\ ~env.killed) =>
        \A n \in TabNames : NoDuplicateWeek(sheets[n].rows)

\* runs one at a time, none terminated: the second run has skipped the weeks
\* the first marked and appended below the rows of the first
C19_WitnessOneAtATime ==
    /\ ~env.overlapped
    /\ ~env.killed
    /\ env.runs = 2
    /\ pc["run1"] = "h_done"
    /\ obs["run1"].before[SHEET_NAME].exists
    /\ Len(obs["run1"].before[SHEET_NAME].rows) >= 2
    /\ obs["run1"].hAppended /= <<>>

\* runs one at a time: the second run appended the row of a week whose row the
\* first, terminated before it marked the week, had appended
C19_WitnessTerminated ==
    /\ ~env.overlapped
    /\ env.killed
    /\ \E key \in Range(obs["run1"].hAppended) :
          RowCount(sheets[SHEET_NAME].rows, key) = 2

\* two runs at the same time have both decided that a week is unprocessed and
\* both appended its row: the worksheet holds the rows of both
C19_Witness ==
    /\ env.overlapped
    /\ \E year \in LeagueYears : \E week \in Weeks :
          BothAppended(WeekKey(year, week))
    /\ Len(sheets[SHEET_NAME].rows) >=
          1 + Len(obs["run1"].hAppended) + Len(obs["run2"].hAppended)

====
